---- MODULE Spec2Model ----
(***************************************************************************)
(* Model of server/app/routers/upload.py: batch ingestion of exam papers,  *)
(* ingestion of a ZIP archive, the background worker process_upload_async, *)
(* auto_grade_upload, the manual reprocess / regrade-all endpoints and     *)
(* delete_upload.                                                          *)
(*                                                                         *)
(* Strings are sequences of atoms (an atom is a run of characters that the *)
(* code never splits: "STU001", "exam", "pdf", ",", ".", "_", " ").         *)
(* The store's writes, the file system and the two adapters may raise, and *)
(* so may the exam lookup that opens an ingestion request: in the loops of *)
(* the two ingestion endpoints, in the worker and in auto_grade_upload the *)
(* code catches the exception; around the exam lookup and in delete_upload *)
(* nothing does, and the request ends there (500).  A removal of the       *)
(* scratch directory that fails is swallowed (ignore_errors).  The other   *)
(* reads of the store are reliable.  ctr.faults counts the steps in which  *)
(* a call failed.  A column no write has set is NULL: the row has no such  *)
(* field.                                                                  *)
(*                                                                         *)
(* The handlers are coroutines of one event loop: an action is the code    *)
(* that runs between two awaits at which another callback can see a        *)
(* different state.  disk maps each stored path to the number of bytes in  *)
(* its file.                                                               *)
(***************************************************************************)
EXTENDS Integers, Sequences, FiniteSets, TLC

VARIABLES settings, uploads, disk, task, answers, results, batch, api, ctr,
          arch, resp, seg

vars == <<settings, uploads, disk, task, answers, results, batch, api, ctr,
          arch, resp, seg>>

(***************************************************************************)
(* Bounds                                                                  *)
(***************************************************************************)
MaxFiles == 2        \* files in one batch request
MaxUploads == 2      \* exam_uploads rows ever created
MaxBatchCalls == 1   \* batch requests
MaxApiCalls == 1     \* reprocess / regrade-all requests
MaxEntries == 2      \* files inside one ZIP archive
MaxZipCalls == 1     \* ZIP requests
MaxDeleteCalls == 1  \* delete requests
MaxIngestCalls == 1  \* ingestion requests, batch or ZIP, of the whole service
MaxIngestionItems == 1  \* files in each of two requests that run side by side
MaxFaults == 1       \* steps with a failing call in a run of the whole service

(***************************************************************************)
(* Python string helpers                                                   *)
(***************************************************************************)
Last(s) == s[Len(s)]

\* str.split(sep): the pieces between the separators; "" splits to [""].
RECURSIVE Split(_, _)
Split(s, sep) ==
  IF \A i \in 1..Len(s) : s[i] # sep
    THEN <<s>>
    ELSE LET i == CHOOSE k \in 1..Len(s) :
                    s[k] = sep /\ \A j \in 1..(k - 1) : s[j] # sep
         IN  <<SubSeq(s, 1, i - 1)>> \o Split(SubSeq(s, i + 1, Len(s)), sep)

IsSpace(a) == a \in {" ", "\n"}

\* str.strip(): leading and trailing whitespace removed.
RECURSIVE Strip(_)
Strip(s) ==
  IF s = <<>> THEN s
  ELSE IF IsSpace(s[1]) THEN Strip(Tail(s))
  ELSE IF IsSpace(Last(s)) THEN Strip(SubSeq(s, 1, Len(s) - 1))
  ELSE s

\* str.lower() on one atom: every atom of the model that holds a cased
\* character in upper case, and its lower-case form
LowerAtom(a) ==
  CASE a = "PDF" -> "pdf"
    [] a = "TXT" -> "txt"
    [] a = "JPG" -> "jpg"
    [] a = "DS" -> "ds"
    [] a = "Store" -> "store"
    [] a = "STU001" -> "stu001"
    [] a = "STU002" -> "stu002"
    [] a = "Q1:" -> "q1:"
    [] a = "Q2:" -> "q2:"
    [] a = "Q3:" -> "q3:"
    [] a = "Question 1:" -> "question 1:"
    [] a = "Question 2:" -> "question 2:"
    [] a = "Question 3:" -> "question 3:"
    [] a = "Answer 1:" -> "answer 1:"
    [] a = "Answer 2:" -> "answer 2:"
    [] a = "Answer 3:" -> "answer 3:"
    [] OTHER -> a

\* str.lower()
Lower(s) == [i \in 1..Len(s) |-> LowerAtom(s[i])]

SeqContains(list, x) == \E i \in 1..Len(list) : list[i] = x

(***************************************************************************)
(* Tables the endpoints only read                                          *)
(***************************************************************************)
\* exams table: the ids that exist; "E0" has no questions yet
Exams == {"E1", "E0"}
ExamIds == {"E1", "E0", "E9"}

\* students table: student_id -> id (uuid)
Roster == {<<"STU001">>}
StudentUUID(sid) == <<"uuid">> \o sid

\* questions table, ordered by question_number
Questions(exam_id) ==
  IF exam_id = "E1"
    THEN <<[id |-> "q1", question_number |-> 1],
           [id |-> "q2", question_number |-> 2]>>
    ELSE <<>>

Teachers == {"T1"}

(***************************************************************************)
(* Configuration                                                           *)
(***************************************************************************)
SettingsChoices ==
  { [ALLOWED_EXTENSIONS |-> <<"pdf", ",", "jpg">>, MAX_FILE_SIZE |-> 1],
    [ALLOWED_EXTENSIONS |-> <<"pdf", ",", "txt">>, MAX_FILE_SIZE |-> 1] }

(***************************************************************************)
(* Requests                                                                *)
(***************************************************************************)
NoFilename == <<>>

\* UploadFile: filename and the length of its content
FileChoices ==
  { [filename |-> NoFilename,                size |-> 1],
    [filename |-> <<"exam", ".", "pdf">>,    size |-> 1],
    [filename |-> <<"exam", ".", "PDF">>,    size |-> 1],
    [filename |-> <<"notes", ".", "txt">>,   size |-> 1],
    [filename |-> <<"virus", ".", "exe">>,   size |-> 1],
    [filename |-> <<"exam", ".", "pdf">>,    size |-> 2] }

\* the student_ids form field
StudentIdsChoices ==
  { <<"STU001">>,
    <<"STU002">>,
    <<"STU001", ",", "STU002">>,
    <<"STU002", ",", "STU001">>,
    <<"STU001", ",", " ", "STU001">>,
    <<"STU001", ",", "STU001", ",", "STU001">>,
    <<"STU001", ",", "STU002", ",", "STU001">> }

RECURSIVE SeqsUpTo(_, _)
SeqsUpTo(S, n) ==
  IF n = 0 THEN {<<>>}
  ELSE LET shorter == SeqsUpTo(S, n - 1)
       IN  shorter \cup {Append(q, x) : q \in shorter, x \in S}

\* a listing whose order the code does not fix (os.walk at line 225, the
\* select without order at lines 651-653): the members of S in any order
Orderings(S) ==
  {q \in SeqsUpTo(S, Cardinality(S)) :
     /\ Len(q) = Cardinality(S)
     /\ \A i, j \in 1..Len(q) : i # j => q[i] # q[j]}

\* ctr.faults counts the steps in which a call of the environment failed
CountFault(c, failed) == [c EXCEPT !.faults = @ + IF failed THEN 1 ELSE 0]

\* the steps with a failing call are within the bound so far
WithinFaults == ctr.faults <= MaxFaults

\* what the environment does to one item that passed validation: nothing,
\* or os.makedirs / aiofiles.open raises (no file is made), or f.write
\* raises (the file made by the open stays, empty), or the insert raises or
\* returns no data
OpenFaults == {"none", "open_raises"}
WriteFaults == {"none", "write_raises"}
InsertFaults == {"none", "insert_raises", "insert_nodata"}
ItemFaults == OpenFaults \cup WriteFaults \cup InsertFaults

(***************************************************************************)
(* batch_upload_exam_papers                                                *)
(***************************************************************************)
\* line 37: [sid.strip() for sid in student_ids.split(',')]
ParseStudentIds(student_ids) ==
  LET parts == Split(student_ids, ",")
  IN  [i \in 1..Len(parts) |-> Strip(parts[i])]

\* line 87: file.filename.split('.')[-1].lower()
FileExtension(filename) == Lower(Last(Split(filename, ".")))

\* lines 90-92: the configured list, with 'txt' appended when missing
AllowedExtensionsBatch(cfg) ==
  LET allowed == Split(cfg.ALLOWED_EXTENSIONS, ",")
  IN  IF SeqContains(allowed, <<"txt">>) THEN allowed
      ELSE Append(allowed, <<"txt">>)

\* lines 41-50: the whole-call preconditions; 0 when the call goes on.
\* The exam lookup of line 48 is in no try block: when it raises, the
\* request ends with status 500.
BatchPrecondition(exam_id, files, student_id_list, lookup_raises) ==
  IF Len(files) # Len(student_id_list) THEN 400
  ELSE IF lookup_raises THEN 500
  ELSE IF exam_id \notin Exams THEN 404
  ELSE 0

\* lines 62-112: the per-item checks done before anything is written;
\* "" when the item passes
ItemValidationError(cfg, file, student_id) ==
  IF student_id \notin Roster THEN "Student not found"
  ELSE IF file.filename = NoFilename THEN "No filename provided"
  ELSE IF ~SeqContains(AllowedExtensionsBatch(cfg), FileExtension(file.filename))
    THEN "Invalid file type"
  ELSE IF file.size > cfg.MAX_FILE_SIZE THEN "File too large"
  ELSE ""

\* str(e) of the exception caught at line 157
ItemFaultError(fault) ==
  CASE fault = "open_raises"   -> "OSError"
    [] fault = "write_raises"  -> "OSError"
    [] fault = "insert_raises" -> "APIError"
    [] fault = "insert_nodata" -> "Failed to create upload record"

\* lines 68-72, 80-84, 95-99, 107-111, 162-166
FailureEntry(file, student_id, error) ==
  [file |-> IF error = "No filename provided" THEN <<"unknown">> ELSE file.filename,
   student_id |-> student_id,
   error |-> error]

\* the entry is appended to failed_uploads
RecordFailureDropsNoData(failed_uploads, file, student_id, error) ==
  IF error = "Failed to create upload record" THEN failed_uploads
  ELSE Append(failed_uploads, FailureEntry(file, student_id, error))

RecordFailure(failed_uploads, file, student_id, error) ==
  Append(failed_uploads, FailureEntry(file, student_id, error))

\* lines 57, 73, 85, 100, 112, 157: item i of n is over, failed or not, and
\* the loop goes on with the next one; the number of items now dealt with
LoopAbortsOnFailure(i, n, failed) == IF failed THEN n ELSE i

LoopAdvance(i, n, failed) == i

\* lines 150-155
SuccessEntryStaleId(upload_id, file, student_id) ==
  [upload_id |-> upload_id - 1, student_id |-> student_id,
   file_name |-> file.filename, status |-> "processing"]

SuccessEntry(upload_id, file, student_id) ==
  [upload_id |-> upload_id, student_id |-> student_id,
   file_name |-> file.filename, status |-> "processing"]


(***************************************************************************)
(* The adapters                                                            *)
(***************************************************************************)
\* what OCRService.extract_text_from_* returns, or "raise" when it raises
OcrTexts ==
  { <<" ">>,
    <<"Q2:", " ", "dog">>,
    <<"Q1:", " ", "cat", "\n", "Q2:", " ", "dog">> }

OcrRaise == [status |-> "raise", text |-> <<>>]

OcrOutcomes ==
  {[status |-> "success", text |-> t] : t \in OcrTexts \cup {<<>>}}
    \cup {[status |-> "error", text |-> <<>>], OcrRaise}

\* one pass of the loop body of auto_grade_upload, lines 476-537:
\* the grading call, the student_answers insert, the grading_results insert
\* (line 532 does not look at what the second insert returns)
GradeOutcomes ==
  {"ok", "adapter_raises", "answer_raises", "answer_nodata", "result_raises",
   "result_nodata"}

(***************************************************************************)
(* OCRService._parse_answers_botanical: the answer segmentation parser.    *)
(* Its code is not part of the sources at hand; it is modelled from        *)
(* section 4.4 of the specification.                                       *)
(***************************************************************************)
MarkerNumber(tok) ==
  CASE tok \in {"Q1:", "q1:", "Question 1:", "Answer 1:"} -> 1
    [] tok \in {"Q2:", "q2:", "Question 2:", "Answer 2:"} -> 2
    [] tok \in {"Q3:", "q3:", "Question 3:", "Answer 3:"} -> 3
    [] OTHER -> 0

\* the segment captured for marker n ends: the first text captured for a
\* number is kept
CloseSegmentFirstWins(n, captured, m) ==
  IF n = 0 \/ Strip(captured) = <<>> THEN m ELSE m @@ (n :> Strip(captured))

\* the segment captured for marker n ends: its trimmed text replaces what
\* the number had, and a whitespace-only segment leaves the number unmapped
CloseSegment(n, captured, m) ==
  IF n = 0 THEN m
  ELSE IF Strip(captured) = <<>> THEN [k \in DOMAIN m \ {n} |-> m[k]]
  ELSE (n :> Strip(captured)) @@ m

RECURSIVE ParseScan(_, _, _, _, _)
ParseScan(text, i, n, captured, m) ==
  IF i > Len(text) THEN CloseSegment(n, captured, m)
  ELSE IF MarkerNumber(text[i]) # 0
    THEN ParseScan(text, i + 1, MarkerNumber(text[i]), <<>>,
                   CloseSegment(n, captured, m))
  ELSE ParseScan(text, i + 1, n, Append(captured, text[i]), m)

ParseAnswers(text) == ParseScan(text, 1, 0, <<>>, <<>>)

(***************************************************************************)
(* auto_grade_upload                                                       *)
(***************************************************************************)
\* The local state of one invocation.  failedQ and pre are history: the
\* questions in whose pass a call raised or an insert gave no row, and the rows of the upload when the
\* invocation began.
IdleCtx ==
  [state |-> "idle", upload |-> 0, exam |-> "", student |-> <<>>,
   parsed |-> <<>>, idx |-> 0, graded |-> 0, raised |-> FALSE,
   failedQ |-> {}, pre |-> [nA |-> 0, nR |-> 0, quiet |-> FALSE]]

AnswersOf(rows, upload_id) == {a \in rows : a.upload_id = upload_id}

ResultsOf(ans, res, upload_id) ==
  {r \in res : \E a \in AnswersOf(ans, upload_id) : a.id = r.student_answer_id}

\* line 478: parsed_answers.get(question_key, "")
StudentAnswer(parsed, number) ==
  IF number \in DOMAIN parsed THEN parsed[number] ELSE <<>>

\* lines 457-459: upload.get("ocr_extracted_text", "") is None for a row
\* whose text was never set, and None and "" are both taken as no text
NoOcrText(upload) ==
  \/ "ocr_extracted_text" \notin DOMAIN upload
  \/ upload.ocr_extracted_text = <<>>

\* the invocation has returned: its locals are gone, what it did is kept
EndedCtx(ctx) ==
  [IdleCtx EXCEPT !.state = "done", !.upload = ctx.upload, !.graded = ctx.graded,
                  !.raised = ctx.raised, !.failedQ = ctx.failedQ, !.pre = ctx.pre]

\* lines 476-485: move to the next question that has an answer; the
\* invocation waits there for the grading call, or ends after the last one
NextQuestionNoSkip(ctx) ==
  IF ctx.idx = Len(Questions(ctx.exam))
    THEN EndedCtx(ctx)
    ELSE [ctx EXCEPT !.state = "await", !.idx = ctx.idx + 1]

NextQuestion(ctx) ==
  LET qs   == Questions(ctx.exam)
      rest == {j \in (ctx.idx + 1)..Len(qs) :
                 StudentAnswer(ctx.parsed, qs[j].question_number) # <<>>}
  IN  IF rest = {}
        THEN EndedCtx(ctx)
        ELSE [ctx EXCEPT !.state = "await",
                         !.idx = CHOOSE j \in rest : \A k \in rest : j <= k]

\* lines 401-474: everything before the first grading call
AutoGradeBeginNoQuestionsRaises(upload_id, ups, ans, res, quiet) ==
  LET base == [IdleCtx EXCEPT
                 !.upload = upload_id,
                 !.pre = [nA |-> Cardinality(AnswersOf(ans, upload_id)),
                          nR |-> Cardinality(ResultsOf(ans, res, upload_id)),
                          quiet |-> quiet]]
  IN  IF upload_id \notin DOMAIN ups THEN EndedCtx(base)
      ELSE LET upload == ups[upload_id]
           IN  IF upload.exam_id \notin Exams THEN EndedCtx(base)
               ELSE IF Questions(upload.exam_id) = <<>>
                 THEN EndedCtx([base EXCEPT !.raised = TRUE])
               ELSE IF NoOcrText(upload) THEN EndedCtx(base)
               ELSE NextQuestion([base EXCEPT
                      !.exam = upload.exam_id,
                      !.student = upload.student_id,
                      !.parsed = ParseAnswers(upload.ocr_extracted_text)])

AutoGradeBegin(upload_id, ups, ans, res, quiet) ==
  LET base == [IdleCtx EXCEPT
                 !.upload = upload_id,
                 !.pre = [nA |-> Cardinality(AnswersOf(ans, upload_id)),
                          nR |-> Cardinality(ResultsOf(ans, res, upload_id)),
                          quiet |-> quiet]]
  IN  IF upload_id \notin DOMAIN ups THEN EndedCtx(base)
      ELSE LET upload == ups[upload_id]
           IN  IF upload.exam_id \notin Exams THEN EndedCtx(base)
               ELSE IF Questions(upload.exam_id) = <<>> THEN EndedCtx(base)
               ELSE IF NoOcrText(upload) THEN EndedCtx(base)
               ELSE NextQuestion([base EXCEPT
                      !.exam = upload.exam_id,
                      !.student = upload.student_id,
                      !.parsed = ParseAnswers(upload.ocr_extracted_text)])

\* lines 546-549: the exception handler of auto_grade_upload
AutoGradeExcept(ctx, qid) ==
  EndedCtx([ctx EXCEPT !.raised = TRUE, !.failedQ = @ \cup {qid}])

\* the id the store gives a new row: unique, and nothing more is known of it
FreshId(ans, upload_id, question_id) ==
  <<upload_id, question_id,
    Cardinality({x \in ans : x.upload_id = upload_id /\ x.question_id = question_id}) + 1>>

\* lines 499-537 for the question the invocation waits on, then on to the
\* next grading call: the new [ctx, answers, results]
AutoGradeResume(ctx, outcome, ans, res) ==
  LET q   == Questions(ctx.exam)[ctx.idx]
      a   == [id |-> FreshId(ans, ctx.upload, q.id),
              upload_id |-> ctx.upload, question_id |-> q.id,
              student_id |-> ctx.student,
              extracted_answer |-> StudentAnswer(ctx.parsed, q.question_number)]
      r   == [id |-> FreshId(ans, ctx.upload, q.id),
              student_answer_id |-> a.id, exam_id |-> ctx.exam,
              student_id |-> ctx.student, question_id |-> q.id]
  IN  CASE outcome = "adapter_raises" ->
             [ctx |-> AutoGradeExcept(ctx, q.id), answers |-> ans,
              results |-> res]
        [] outcome = "answer_raises" ->
             [ctx |-> AutoGradeExcept(ctx, q.id), answers |-> ans,
              results |-> res]
        [] outcome = "answer_nodata" ->
             [ctx |-> NextQuestion([ctx EXCEPT !.failedQ = @ \cup {q.id}]),
              answers |-> ans, results |-> res]
        [] outcome = "result_raises" ->
             [ctx |-> AutoGradeExcept(ctx, q.id), answers |-> ans \cup {a},
              results |-> res]
        [] outcome = "result_nodata" ->
             [ctx |-> NextQuestion([ctx EXCEPT !.graded = @ + 1,
                                               !.failedQ = @ \cup {q.id}]),
              answers |-> ans \cup {a}, results |-> res]
        [] outcome = "ok" ->
             [ctx |-> NextQuestion([ctx EXCEPT !.graded = @ + 1]),
              answers |-> ans \cup {a}, results |-> res \cup {r}]

\* lines 116 and 276: f"{UPLOAD_PATH}{exam_id}/{student_id}/{uuid4()}.{ext}"
NoPath == <<>>

StoredPath(exam_id, student_id, uuid, ext) ==
  [exam_id |-> exam_id, student_id |-> student_id, uuid |-> uuid, ext |-> ext]

\* The stored files: path -> number of bytes in the file.
\* lines 122 and 282: aiofiles.open(path, 'wb') makes the file, empty
CreateFile(d, path) == (path :> 0) @@ d

\* lines 123 and 283, and the close of the file: the content is in the file
WriteBytes(d, path, n) == [d EXCEPT ![path] = n]

\* lines 126-135 and 286-295: the row given to the insert
UploadRow(exam_id, student_uuid, teacher_id, filename, path, size, ext) ==
  [exam_id |-> exam_id,
   student_id |-> student_uuid,
   uploaded_by_teacher_id |-> teacher_id,
   file_name |-> filename,
   file_path |-> path,
   file_size |-> size,
   file_type |-> ext,
   processing_status |-> "uploaded",
   error_message |-> ""]

\* lines 148 and 301: asyncio.create_task(process_upload_async(...)); the
\* task has its arguments and has not run yet
NewTask(path, ext) ==
  [pc |-> "created", file_path |-> path, file_extension |-> ext,
   ocr |-> "none", read |-> "none", ctx |-> IdleCtx]

\* lines 139-141 and 297: the insert gave a row
RowInserted(fault) == fault = "none"

\* the uploads that the requests under way may still create
PendingUploads ==
  (IF batch.pc \in {"loop", "write", "insert"}
     THEN Len(batch.files) - batch.idx ELSE 0)
    + (IF arch.pc = "unpack" THEN Len(arch.archive.entries)
       ELSE IF arch.pc \in {"loop", "write", "insert"}
         THEN Len(arch.files) - arch.idx
       ELSE 0)

IdleBatch ==
  [pc |-> "idle", exam_id |-> "", teacher_id |-> "", files |-> <<>>,
   student_id_list |-> <<>>, idx |-> 0, file_path |-> NoPath,
   upload_results |-> <<>>, failed_uploads |-> <<>>, status_code |-> 0,
   faults |-> <<>>]

\* lines 20-55: the request arrives, the preconditions are checked
BatchUploadCall(exam_id, files, student_ids, teacher_id, lookup_raises) ==
  LET ids  == ParseStudentIds(student_ids)
      code == BatchPrecondition(exam_id, files, ids, lookup_raises)
  IN  /\ batch.pc \in {"idle", "returned", "raised"}
      /\ ctr.batch < MaxBatchCalls
      /\ lookup_raises => Len(files) = Len(ids)
      /\ ctr.uploads + PendingUploads + Len(files) <= MaxUploads
      /\ batch' = [IdleBatch EXCEPT
                     !.pc = IF code = 0 THEN "loop" ELSE "raised",
                     !.exam_id = exam_id, !.teacher_id = teacher_id,
                     !.files = files, !.student_id_list = ids,
                     !.status_code = code]
      /\ ctr' = CountFault([ctr EXCEPT !.batch = @ + 1], lookup_raises)
      /\ UNCHANGED <<settings, seg, arch, resp, uploads, disk, task, answers, results, api>>

\* the item under way is over with a failure entry, and the loop goes on
BatchItemFailed(error, fault) ==
  LET i == batch.idx + 1
  IN  [batch EXCEPT
         !.pc = "loop",
         !.idx = LoopAdvance(i, Len(batch.files), TRUE),
         !.file_path = NoPath,
         !.failed_uploads = RecordFailure(@, batch.files[i],
                                          batch.student_id_list[i], error),
         !.faults = Append(@, fault)]

\* lines 57-122: an iteration of the loop begins: the checks of the item
\* and, when it passes them, the open of the file it is stored in.  (The
\* handler waits at lines 103-104 in between; the checks read nothing that
\* another callback writes.)
BatchUploadItem(fault) ==
  LET i          == batch.idx + 1
      file       == batch.files[i]
      student_id == batch.student_id_list[i]
      invalid    == ItemValidationError(settings, file, student_id)
      file_path  == StoredPath(batch.exam_id, student_id, ctr.uuid + 1,
                               FileExtension(file.filename))
  IN  /\ batch.pc = "loop"
      /\ i <= Len(batch.files)
      /\ fault \in OpenFaults
      /\ IF invalid # ""
           THEN /\ fault = "none"
                /\ batch' = BatchItemFailed(invalid, fault)
                /\ UNCHANGED <<disk, ctr>>
           ELSE IF fault = "open_raises"
           THEN /\ batch' = BatchItemFailed(ItemFaultError(fault), fault)
                /\ ctr' = CountFault([ctr EXCEPT !.uuid = @ + 1], TRUE)
                /\ UNCHANGED disk
           ELSE /\ batch' = [batch EXCEPT !.pc = "write", !.file_path = file_path]
                /\ ctr' = [ctr EXCEPT !.uuid = @ + 1]
                /\ disk' = CreateFile(disk, file_path)
      /\ UNCHANGED <<settings, seg, arch, resp, uploads, task, answers, results, api>>

\* line 123 and the end of the with block: the content is written and the
\* file closed; when the write raises the empty file stays where it is
BatchItemWrite(fault) ==
  /\ batch.pc = "write"
  /\ fault \in WriteFaults
  /\ IF fault = "write_raises"
       THEN /\ batch' = BatchItemFailed(ItemFaultError(fault), fault)
            /\ UNCHANGED disk
       ELSE /\ batch' = [batch EXCEPT !.pc = "insert"]
            /\ disk' = WriteBytes(disk, batch.file_path,
                                  batch.files[batch.idx + 1].size)
  /\ ctr' = CountFault(ctr, fault # "none")
  /\ UNCHANGED <<settings, seg, arch, resp, uploads, task, answers, results, api>>

\* lines 126-155: the row is inserted, the task is dispatched and the
\* success is reported
BatchItemInsert(fault) ==
  LET i          == batch.idx + 1
      file       == batch.files[i]
      student_id == batch.student_id_list[i]
      upload_id  == ctr.uploads + 1
      ext        == FileExtension(file.filename)
      row        == UploadRow(batch.exam_id, StudentUUID(student_id),
                              batch.teacher_id, file.filename, batch.file_path,
                              file.size, ext)
  IN  /\ batch.pc = "insert"
      /\ fault \in InsertFaults
      /\ IF RowInserted(fault)
           THEN /\ uploads' = (upload_id :> row) @@ uploads
                /\ task' = (upload_id :> NewTask(batch.file_path, ext)) @@ task
                /\ ctr' = [ctr EXCEPT !.uploads = @ + 1]
                /\ batch' = [batch EXCEPT
                     !.pc = "loop",
                     !.idx = LoopAdvance(i, Len(batch.files), FALSE),
                     !.file_path = NoPath,
                     !.upload_results =
                        Append(@, SuccessEntry(upload_id, file, student_id)),
                     !.faults = Append(@, fault)]
           ELSE /\ batch' = BatchItemFailed(ItemFaultError(fault), fault)
                /\ ctr' = CountFault(ctr, TRUE)
                /\ UNCHANGED <<uploads, task>>
      /\ UNCHANGED <<settings, seg, arch, resp, disk, answers, results, api>>

\* lines 168-183: the report
BatchUploadReturn ==
  /\ batch.pc = "loop"
  /\ batch.idx = Len(batch.files)
  /\ batch' = [batch EXCEPT !.pc = "returned", !.status_code = 200]
  /\ UNCHANGED <<settings, seg, arch, resp, uploads, disk, task, answers, results, api, ctr>>

(***************************************************************************)
(* process_upload_async                                                    *)
(***************************************************************************)
\* supabase .update(fields).eq("id", upload_id): no row, no change
UpdateUploadNoFilter(ups, upload_id, fields) ==
  [u \in DOMAIN ups |-> fields @@ ups[u]]

UpdateUpload(ups, upload_id, fields) ==
  IF upload_id \in DOMAIN ups
    THEN [ups EXCEPT ![upload_id] = fields @@ @]
    ELSE ups

\* lines 388-396: the handler's own update may raise as well, and then the
\* task ends with that exception and the row stays as it was
HandlerUpdate(ups, upload_id, message, handler_raises) ==
  IF handler_raises THEN ups
  ELSE UpdateUpload(ups, upload_id,
         [processing_status |-> "failed", error_message |-> message])

\* line 363
ExtractionFailed(ocr) == ocr.status # "success" \/ Strip(ocr.text) = <<>>

\* what the task remembers of ocr_result
OcrVerdict(ocr) == IF ExtractionFailed(ocr) THEN "failed" ELSE "ok"

\* lines 365-371
FailedFields ==
  [processing_status |-> "failed", error_message |-> "No text extracted",
   ocr_extracted_text |-> <<>>]

\* lines 375-380
ProcessedFieldsKeepStatus(ocr) == [ocr_extracted_text |-> ocr.text]

ProcessedFields(ocr) ==
  [processing_status |-> "processed", ocr_extracted_text |-> ocr.text]

\* no invocation of auto_grade_upload is under way for the upload, and the
\* worker's own one ended without a failure
WorkerGradedCleanly(upload_id) ==
  /\ upload_id \in DOMAIN task
  /\ task[upload_id].pc = "done"
  /\ task[upload_id].ctx.state = "done"
  /\ ~task[upload_id].ctx.raised
  /\ task[upload_id].ctx.failedQ = {}

\* lines 330-343: the task starts and marks the row
WorkerStart(u, update_raises, handler_raises) ==
  /\ u \in DOMAIN task
  /\ task[u].pc = "created"
  /\ handler_raises => update_raises
  /\ IF update_raises
       THEN /\ uploads' = HandlerUpdate(uploads, u, "APIError", handler_raises)
            /\ task' = [task EXCEPT ![u].pc = "done"]
       ELSE /\ uploads' = UpdateUpload(uploads, u,
                            [processing_status |-> "processing"])
            /\ task' = [task EXCEPT ![u].pc = "reading"]
  /\ ctr' = CountFault(ctr, update_raises)
  /\ UNCHANGED <<settings, seg, arch, resp, disk, answers, results, batch, api>>

\* lines 346-355: the stored file is opened and read.  For a pdf or an
\* image the worker does it (lines 350-351, 354-355), and a file that is
\* gone or a read that raises takes it to its handler.  For a txt the
\* path is given to the extraction (line 348), which reads the file; what
\* it found is kept for the step in which it returns.
WorkerRead(u, read_raises, handler_raises) ==
  LET stored == task[u].file_path \in DOMAIN disk
  IN  /\ u \in DOMAIN task
      /\ task[u].pc = "reading"
      /\ handler_raises => read_raises
      /\ IF task[u].file_extension = <<"txt">>
           THEN /\ ~read_raises
                /\ task' = [task EXCEPT
                     ![u].pc = "extracting",
                     ![u].read = IF stored THEN "ok" ELSE "missing"]
                /\ UNCHANGED <<uploads, ctr>>
           ELSE IF stored /\ ~read_raises
           THEN /\ task' = [task EXCEPT ![u].pc = "extracting", ![u].read = "ok"]
                /\ UNCHANGED <<uploads, ctr>>
           ELSE /\ ~stored => read_raises
                /\ uploads' = HandlerUpdate(uploads, u, "OSError", handler_raises)
                /\ task' = [task EXCEPT ![u].pc = "done", ![u].ocr = "raise",
                                        ![u].read = "raised"]
                /\ ctr' = CountFault(ctr, stored \/ handler_raises)
  /\ UNCHANGED <<settings, seg, arch, resp, disk, answers, results, batch, api>>

\* lines 348-386: the extraction returns (or raises); the row is updated;
\* auto_grade_upload runs up to its first grading call.  An extraction
\* that found no file to read returns no text.
WorkerExtract(u, ocr, update_raises, handler_raises) ==
  LET got == ocr
  IN  /\ u \in DOMAIN task
      /\ task[u].pc = "extracting"
      /\ task[u].read = "missing" => ocr.status # "success"
      /\ handler_raises => (update_raises \/ got = OcrRaise)
      /\ (got = OcrRaise) => ~update_raises
      /\ IF got = OcrRaise
           THEN /\ uploads' = HandlerUpdate(uploads, u, "OCRError", handler_raises)
                /\ task' = [task EXCEPT ![u].pc = "done", ![u].ocr = "raise"]
           ELSE IF update_raises
           THEN /\ uploads' = HandlerUpdate(uploads, u, "APIError", handler_raises)
                /\ task' = [task EXCEPT ![u].pc = "done", ![u].ocr = OcrVerdict(got)]
           ELSE IF ExtractionFailed(got)
           THEN /\ uploads' = UpdateUpload(uploads, u, FailedFields)
                /\ task' = [task EXCEPT ![u].pc = "done", ![u].ocr = OcrVerdict(got)]
           ELSE LET ups == UpdateUpload(uploads, u, ProcessedFields(got))
                    ctx == AutoGradeBegin(u, ups, answers, results, FALSE)
                IN  /\ uploads' = ups
                    /\ task' = [task EXCEPT
                         ![u].pc = IF ctx.state = "await" THEN "grading" ELSE "done",
                         ![u].ocr = OcrVerdict(got),
                         ![u].ctx = ctx]
      /\ ctr' = CountFault(ctr, got = OcrRaise \/ update_raises)
      /\ UNCHANGED <<settings, seg, arch, resp, disk, answers, results, batch, api>>

\* lines 546-549 seen from line 386: auto_grade_upload has caught its own
\* exception, the worker's handler at line 388 does not run and the row of
\* the upload stays as it is
GradeFailureReachesHandler(ups, upload_id, ctx) ==
  IF ctx.raised THEN HandlerUpdate(ups, upload_id, "GradingError", FALSE) ELSE ups

AfterAutoGrade(ups, upload_id, ctx) == ups

\* line 386 onwards: one grading call of the worker's auto_grade_upload
\* returns; its exceptions end at lines 546-549 and never reach line 388
WorkerGrade(u, outcome) ==
  /\ u \in DOMAIN task
  /\ task[u].pc = "grading"
  /\ LET n == AutoGradeResume(task[u].ctx, outcome, answers, results)
     IN  /\ answers' = n.answers
         /\ results' = n.results
         /\ task' = [task EXCEPT
              ![u].pc = IF n.ctx.state = "await" THEN "grading" ELSE "done",
              ![u].ctx = n.ctx]
         /\ uploads' = AfterAutoGrade(uploads, u, n.ctx)
  /\ ctr' = CountFault(ctr, outcome # "ok")
  /\ UNCHANGED <<settings, seg, arch, resp, disk, batch, api>>

IdleApi ==
  [op |-> "none", pc |-> "idle", target |-> 0, exam_id |-> "", queue |-> <<>>,
   results |-> <<>>, raised_log |-> <<>>, ctx |-> IdleCtx, status_code |-> 0]

(***************************************************************************)
(* reprocess_upload and regrade_all_uploads                                *)
(***************************************************************************)
\* lines 606-641
ReprocessCall(upload_id) ==
  /\ api.pc \in {"idle", "returned", "raised"}
  /\ ctr.api < MaxApiCalls
  /\ ctr' = [ctr EXCEPT !.api = @ + 1]
  /\ IF upload_id \notin DOMAIN uploads
       THEN api' = [IdleApi EXCEPT !.op = "reprocess", !.pc = "raised",
                                   !.target = upload_id, !.status_code = 500]
       ELSE LET ctx == AutoGradeBegin(upload_id, uploads, answers, results,
                                      WorkerGradedCleanly(upload_id))
            IN  api' = [IdleApi EXCEPT
                          !.op = "reprocess", !.target = upload_id, !.ctx = ctx,
                          !.pc = IF ctx.state = "await" THEN "grading" ELSE "returned",
                          !.status_code = IF ctx.state = "await" THEN 0 ELSE 200]
  /\ UNCHANGED <<settings, seg, arch, resp, uploads, disk, task, answers, results, batch>>

\* lines 651-653: the processed uploads of the exam
ProcessedUploads(ups, exam_id) ==
  {u \in DOMAIN ups : /\ ups[u].exam_id = exam_id
                      /\ ups[u].processing_status = "processed"}

\* the select has no order clause: the rows of a set come in any order
SelectOrders(S) == Orderings(S)

\* lines 671-674 and 678-682
RegradeEntry(upload_id, raised) ==
  [upload_id |-> upload_id,
   status |-> IF raised THEN "failed" ELSE "success"]

\* lines 665-682: the loop runs on until an invocation of auto_grade_upload
\* waits for a grading call or the uploads are exhausted.  An exception of
\* auto_grade_upload never leaves it (lines 546-549), so line 676 sees none.
RECURSIVE RegradeLoop(_, _, _, _, _)
RegradeLoop(a, ups, ans, res, quiet) ==
  IF a.queue = <<>>
    THEN [a EXCEPT !.pc = "returned", !.status_code = 200]
    ELSE LET ctx == AutoGradeBegin(Head(a.queue), ups, ans, res,
                                   quiet[Head(a.queue)])
         IN  IF ctx.state = "await"
               THEN [a EXCEPT !.pc = "grading", !.ctx = ctx]
               ELSE RegradeLoop([a EXCEPT
                        !.queue = Tail(@),
                        !.results = Append(@, RegradeEntry(Head(a.queue), FALSE)),
                        !.raised_log = Append(@, ctx.raised),
                        !.ctx = ctx],
                      ups, ans, res, quiet)

QuietNow == [u \in DOMAIN task |-> WorkerGradedCleanly(u)]

\* lines 644-663
RegradeAllCall(exam_id, found) ==
  /\ api.pc \in {"idle", "returned", "raised"}
  /\ ctr.api < MaxApiCalls
  /\ found \in SelectOrders(ProcessedUploads(uploads, exam_id))
  /\ ctr' = [ctr EXCEPT !.api = @ + 1]
  /\ IF found = <<>>
       THEN api' = [IdleApi EXCEPT !.op = "regrade_all", !.pc = "raised",
                                   !.exam_id = exam_id, !.status_code = 404]
       ELSE api' = RegradeLoop([IdleApi EXCEPT !.op = "regrade_all",
                                               !.exam_id = exam_id,
                                               !.queue = found],
                               uploads, answers, results, QuietNow)
  /\ UNCHANGED <<settings, seg, arch, resp, uploads, disk, task, answers, results, batch>>

\* a grading call made for reprocess or regrade-all returns
ApiGrade(outcome) ==
  /\ api.pc = "grading"
  /\ LET n == AutoGradeResume(api.ctx, outcome, answers, results)
     IN  /\ answers' = n.answers
         /\ results' = n.results
         /\ IF n.ctx.state = "await"
              THEN api' = [api EXCEPT !.ctx = n.ctx]
              ELSE IF api.op = "reprocess"
              THEN api' = [api EXCEPT !.ctx = n.ctx, !.pc = "returned",
                                      !.status_code = 200]
              ELSE api' = RegradeLoop([api EXCEPT
                              !.queue = Tail(@),
                              !.results = Append(@, RegradeEntry(Head(api.queue), FALSE)),
                              !.raised_log = Append(@, n.ctx.raised),
                              !.ctx = n.ctx],
                            uploads, n.answers, n.results, QuietNow)
  /\ ctr' = CountFault(ctr, outcome # "ok")
  /\ UNCHANGED <<settings, seg, arch, resp, uploads, disk, task, batch>>


(***************************************************************************)
(* upload_exam_papers_zip                                                  *)
(***************************************************************************)
ZipNames == { <<"papers", ".", "zip">>, <<"papers", ".", "rar">> }

\* line 198: zip_file.filename.endswith('.zip')
EndsWithZip(name) ==
  /\ Len(name) >= 2
  /\ name[Len(name) - 1] = "."
  /\ name[Len(name)] = "zip"

\* the name under which the request body is saved in the scratch directory
UploadZipName == <<"upload", ".", "zip">>

\* the members of the archive: name in the archive, which may lie in a
\* folder, and length of content
EntryChoices ==
  { [filename |-> <<"STU001", "_", "exam", ".", "pdf">>,  size |-> 1],
    [filename |-> <<"STU001", "_", "notes", ".", "txt">>, size |-> 1],
    [filename |-> <<"STU001", "_", "exam", ".", "pdf">>,  size |-> 2],
    [filename |-> <<"STU002", "_", "exam", ".", "pdf">>,  size |-> 1],
    [filename |-> <<"exam", ".", "pdf">>,                 size |-> 1],
    [filename |-> <<".", "DS", "_", "Store">>,            size |-> 1],
    [filename |-> <<"sub", "/", "STU001", "_", "exam", ".", "pdf">>, size |-> 1],
    [filename |-> <<"sub", "/", "upload", ".", "zip">>,   size |-> 1] }

\* the folder a member is unpacked into, below the scratch directory
MemberDir(name) ==
  LET parts == Split(name, "/")
  IN  [i \in 1..(Len(parts) - 1) |-> parts[i]]

\* the name os.walk gives for the unpacked member
BaseName(name) == Last(Split(name, "/"))

\* an archive is unreadable, or holds some files
ArchiveChoices ==
  { [corrupt |-> c, entries |-> e] :
      c \in BOOLEAN, e \in SeqsUpTo(EntryChoices, MaxEntries) }

\* what the environment does to one entry that passed the checks made
\* before it is read: as for an item of a batch, and the read of the
\* unpacked file may raise
EntryOpenFaults == {"none", "read_raises", "open_raises"}
EntryFaults == EntryOpenFaults \cup WriteFaults \cup InsertFaults

\* lines 212-223: the scratch directory after the request body is saved
\* as upload.zip and unpacked: one file for each path, and extractall
\* writes the members in the archive's order, a later one of a path over an
\* earlier one.  A file is known by its folder (root) and its name.
UnpackedFiles(archive) ==
  LET es == <<[filename |-> UploadZipName, size |-> 1]>> \o archive.entries
      LastOf(name) ==
        CHOOSE i \in 1..Len(es) :
          /\ es[i].filename = name
          /\ \A j \in (i + 1)..Len(es) : es[j].filename # name
  IN  {[root |-> MemberDir(e.filename), filename |-> BaseName(e.filename),
        size |-> e.size] :
         e \in {es[LastOf(es[i].filename)] : i \in 1..Len(es)}}

\* lines 225-226: the lists os.walk may give for the scratch directory: it
\* walks top-down, so the files of the directory itself come before those
\* of its folders; within one directory the order is the file system's
WalkFiles(archive) ==
  LET all == UnpackedFiles(archive)
      top == {f \in all : f.root = <<>>}
  IN  {a \o b : a \in Orderings(top), b \in Orderings(all \ top)}

\* line 227
EntrySkipped(filename) == filename = UploadZipName \/ filename[1] = "."

\* line 239: filename.split('_')[0]
EntryStudentId(filename) == Split(filename, "_")[1]

\* line 256: the configured list as it is
AllowedExtensionsZip(cfg) == Split(cfg.ALLOWED_EXTENSIONS, ",")

FormatError == "Invalid filename format. Expected: studentID_filename.ext"

\* lines 232-262: the checks made before the entry is read; "" when it passes
EntryValidationError(cfg, filename) ==
  IF ~SeqContains(filename, "_") THEN FormatError
  ELSE IF EntryStudentId(filename) \notin Roster THEN "Student not found"
  ELSE IF ~SeqContains(AllowedExtensionsZip(cfg), FileExtension(filename))
    THEN "Invalid file type"
  ELSE ""

\* str(e) of the exception caught at line 310
EntryFaultError(fault) ==
  CASE fault = "read_raises"   -> "OSError"
    [] fault = "open_raises"   -> "OSError"
    [] fault = "write_raises"  -> "OSError"
    [] fault = "insert_raises" -> "APIError"
    [] fault = "insert_nodata" -> "list index out of range"

\* lines 233-236, 244-248, 257-261, 269-273, 311-314
EntryFailure(filename, error) ==
  IF error \in {"Student not found", "Invalid file type", "File too large"}
    THEN [file |-> filename, student_id |-> EntryStudentId(filename),
          error |-> error]
    ELSE [file |-> filename, error |-> error]

\* lines 303-308
EntrySuccess(upload_id, filename) ==
  [upload_id |-> upload_id, student_id |-> EntryStudentId(filename),
   file_name |-> filename, status |-> "processing"]

\* lines 316-318: shutil.rmtree(temp_dir, ignore_errors=True): a removal
\* that fails raises nothing and leaves the directory
RemoveTree(temp_dir, removal_fails) ==
  IF temp_dir = "exists" /\ ~removal_fails THEN "removed" ELSE temp_dir

IdleArch ==
  [pc |-> "idle", exam_id |-> "", teacher_id |-> "", zip_name |-> <<>>,
   archive |-> [corrupt |-> FALSE, entries |-> <<>>], files |-> <<>>,
   idx |-> 0, file_path |-> NoPath, temp_dir |-> "none",
   upload_results |-> <<>>,
   failed_uploads |-> <<>>, status_code |-> 0, faults |-> <<>>]

\* lines 185-210: the request arrives, the preconditions are checked, the
\* scratch directory is made.  The exam lookup of line 202 is in no try
\* block: when it raises, the request ends with status 500.
ZipUploadCall(exam_id, zip_name, archive, teacher_id, lookup_raises) ==
  LET code == IF ~EndsWithZip(zip_name) THEN 400
              ELSE IF lookup_raises THEN 500
              ELSE IF exam_id \notin Exams THEN 404
              ELSE 0
  IN  /\ arch.pc \in {"idle", "returned", "raised"}
      /\ ctr.zip < MaxZipCalls
      /\ lookup_raises => EndsWithZip(zip_name)
      /\ ctr.uploads + PendingUploads + Len(archive.entries) <= MaxUploads
      /\ arch' = [IdleArch EXCEPT
                    !.pc = IF code = 0 THEN "unpack" ELSE "raised",
                    !.exam_id = exam_id, !.teacher_id = teacher_id,
                    !.zip_name = zip_name, !.archive = archive,
                    !.temp_dir = IF code = 0 THEN "exists" ELSE "none",
                    !.status_code = code]
      /\ ctr' = CountFault([ctr EXCEPT !.zip = @ + 1], lookup_raises)
      /\ UNCHANGED <<settings, seg, resp, uploads, disk, task, answers, results,
                     batch, api>>

\* lines 212-226 and 316-318: the request body is saved and unpacked; an
\* exception of either leaves through the finally clause
ZipUnpack(save_raises, files, removal_fails) ==
  /\ arch.pc = "unpack"
  /\ files \in WalkFiles(arch.archive)
  /\ removal_fails => (save_raises \/ arch.archive.corrupt)
  /\ IF save_raises \/ arch.archive.corrupt
       THEN arch' = [arch EXCEPT !.pc = "raised", !.status_code = 500,
                                 !.temp_dir = RemoveTree(@, removal_fails)]
       ELSE arch' = [arch EXCEPT !.pc = "loop", !.files = files]
  /\ ctr' = CountFault(ctr, save_raises \/ removal_fails)
  /\ UNCHANGED <<settings, seg, resp, uploads, disk, task, answers, results,
                 batch, api>>

\* the entry under way is over with a failure entry, and the loop goes on
ZipEntryFailed(error, fault) ==
  [arch EXCEPT
     !.pc = "loop",
     !.idx = arch.idx + 1,
     !.file_path = NoPath,
     !.failed_uploads =
        Append(@, EntryFailure(arch.files[arch.idx + 1].filename, error)),
     !.faults = Append(@, fault)]

\* lines 226-282: one file of the scratch directory is taken: the checks
\* of the entry, the read of its content and, when it passes, the open of
\* the file it is stored in.  (The handler waits at lines 265-266 in
\* between; the checks read nothing that another callback writes.)
ZipEntry(fault) ==
  LET i          == arch.idx + 1
      entry      == arch.files[i]
      filename   == entry.filename
      invalid    == EntryValidationError(settings, filename)
      too_large  == entry.size > settings.MAX_FILE_SIZE
      file_path  == StoredPath(arch.exam_id, EntryStudentId(filename),
                               ctr.uuid + 1, FileExtension(filename))
  IN  /\ arch.pc = "loop"
      /\ i <= Len(arch.files)
      /\ fault \in EntryOpenFaults
      /\ IF EntrySkipped(filename)
           THEN /\ fault = "none"
                /\ arch' = [arch EXCEPT !.idx = i, !.faults = Append(@, fault)]
                /\ UNCHANGED <<disk, ctr>>
         ELSE IF invalid # ""
           THEN /\ fault = "none"
                /\ arch' = ZipEntryFailed(invalid, fault)
                /\ UNCHANGED <<disk, ctr>>
         ELSE IF fault = "read_raises"
           THEN /\ arch' = ZipEntryFailed(EntryFaultError(fault), fault)
                /\ ctr' = CountFault(ctr, TRUE)
                /\ UNCHANGED disk
         ELSE IF too_large
           THEN /\ fault = "none"
                /\ arch' = ZipEntryFailed("File too large", fault)
                /\ UNCHANGED <<disk, ctr>>
         ELSE IF fault = "open_raises"
           THEN /\ arch' = ZipEntryFailed(EntryFaultError(fault), fault)
                /\ ctr' = CountFault([ctr EXCEPT !.uuid = @ + 1], TRUE)
                /\ UNCHANGED disk
         ELSE /\ arch' = [arch EXCEPT !.pc = "write", !.file_path = file_path]
              /\ ctr' = [ctr EXCEPT !.uuid = @ + 1]
              /\ disk' = CreateFile(disk, file_path)
      /\ UNCHANGED <<settings, seg, resp, uploads, task, answers, results,
                     batch, api>>

\* line 283 and the end of the with block: the content is written and the
\* file closed; when the write raises the empty file stays where it is
ZipEntryWrite(fault) ==
  /\ arch.pc = "write"
  /\ fault \in WriteFaults
  /\ IF fault = "write_raises"
       THEN /\ arch' = ZipEntryFailed(EntryFaultError(fault), fault)
            /\ UNCHANGED disk
       ELSE /\ arch' = [arch EXCEPT !.pc = "insert"]
            /\ disk' = WriteBytes(disk, arch.file_path,
                                  arch.files[arch.idx + 1].size)
  /\ ctr' = CountFault(ctr, fault # "none")
  /\ UNCHANGED <<settings, seg, resp, uploads, task, answers, results, batch,
                 api>>

\* lines 286-308: the row is inserted, the task is dispatched and the
\* success is reported
ZipEntryInsert(fault) ==
  LET i          == arch.idx + 1
      entry      == arch.files[i]
      filename   == entry.filename
      ext        == FileExtension(filename)
      upload_id  == ctr.uploads + 1
      row        == UploadRow(arch.exam_id,
                              StudentUUID(EntryStudentId(filename)),
                              arch.teacher_id, filename, arch.file_path,
                              entry.size, ext)
  IN  /\ arch.pc = "insert"
      /\ fault \in InsertFaults
      /\ IF RowInserted(fault)
           THEN /\ uploads' = (upload_id :> row) @@ uploads
                /\ task' = (upload_id :> NewTask(arch.file_path, ext)) @@ task
                /\ ctr' = [ctr EXCEPT !.uploads = @ + 1]
                /\ arch' = [arch EXCEPT
                     !.pc = "loop",
                     !.idx = i,
                     !.file_path = NoPath,
                     !.upload_results =
                        Append(@, EntrySuccess(upload_id, filename)),
                     !.faults = Append(@, fault)]
           ELSE /\ arch' = ZipEntryFailed(EntryFaultError(fault), fault)
                /\ ctr' = CountFault(ctr, TRUE)
                /\ UNCHANGED <<uploads, task>>
      /\ UNCHANGED <<settings, seg, resp, disk, answers, results, batch, api>>

\* lines 316-327: the finally clause, then the report
ZipReturn(removal_fails) ==
  /\ arch.pc = "loop"
  /\ arch.idx = Len(arch.files)
  /\ arch' = [arch EXCEPT !.pc = "returned", !.status_code = 200,
                          !.temp_dir = RemoveTree(@, removal_fails)]
  /\ ctr' = CountFault(ctr, removal_fails)
  /\ UNCHANGED <<settings, seg, resp, uploads, disk, task, answers, results,
                 batch, api>>

(***************************************************************************)
(* delete_upload                                                           *)
(***************************************************************************)
Requesters == {"T1", "T2"}

IdleResp == [op |-> "none", upload_id |-> 0, teacher_id |-> "", status_code |-> 0]

\* what the environment does to a delete that is not refused: nothing, or
\* os.remove raises (line 597), or the store's delete raises (line 600)
DeleteFaults == {"none", "remove_raises", "delete_raises"}

\* lines 586-592: 0 when the delete goes on
DeleteRefusal(ups, upload_id, teacher_id) ==
  IF upload_id \notin DOMAIN ups THEN 404
  ELSE IF ups[upload_id].uploaded_by_teacher_id # teacher_id THEN 403
  ELSE 0

\* lines 595-597: os.remove when the file exists
RemoveFile(d, path) == [p \in DOMAIN d \ {path} |-> d[p]]

\* line 600: the row goes, and with it the rows that refer to it ("this
\* should cascade to related records", line 599)
RemoveRow(ups, upload_id) == [u \in DOMAIN ups \ {upload_id} |-> ups[u]]

\* lines 577-602.  The handler never awaits: the request is one step.  An
\* exception of os.remove or of the store's delete is caught nowhere and
\* ends the request with status 500: the first before anything is changed,
\* the second after the file has been removed.
DeleteUpload(upload_id, teacher_id, fault) ==
  LET code   == DeleteRefusal(uploads, upload_id, teacher_id)
      stored == code = 0 /\ uploads[upload_id].file_path \in DOMAIN disk
  IN  /\ ctr.del < MaxDeleteCalls
      /\ fault \in DeleteFaults
      /\ code # 0 => fault = "none"
      /\ fault = "remove_raises" => stored
      /\ ctr' = CountFault([ctr EXCEPT !.del = @ + 1], fault # "none")
      /\ resp' = [op |-> "delete", upload_id |-> upload_id,
                  teacher_id |-> teacher_id,
                  status_code |-> IF code # 0 THEN code
                                  ELSE IF fault = "none" THEN 200 ELSE 500]
      /\ IF code = 0 /\ fault = "none"
           THEN /\ disk' = RemoveFile(disk, uploads[upload_id].file_path)
                /\ uploads' = RemoveRow(uploads, upload_id)
                /\ answers' = answers \ AnswersOf(answers, upload_id)
                /\ results' = results \ ResultsOf(answers, results, upload_id)
         ELSE IF code = 0 /\ fault = "delete_raises"
           THEN /\ disk' = RemoveFile(disk, uploads[upload_id].file_path)
                /\ UNCHANGED <<uploads, answers, results>>
         ELSE UNCHANGED <<uploads, disk, answers, results>>
      /\ UNCHANGED <<settings, seg, arch, task, batch, api>>

(***************************************************************************)
(* The status endpoints                                                    *)
(***************************************************************************)
\* lines 555-558 and 718-724: the exam_uploads rows of an exam
UploadsOfExam(ups, exam_id) == {u \in DOMAIN ups : ups[u].exam_id = exam_id}

\* lines 551-564
GetExamUploadStatus(exam_id) ==
  /\ resp' = [op |-> "exam_status", exam_id |-> exam_id, status_code |-> 200,
              body |-> [total_uploads |->
                          Cardinality(UploadsOfExam(uploads, exam_id)),
                        uploads |-> {<<u, uploads[u]>> :
                                       u \in UploadsOfExam(uploads, exam_id)}]]
  /\ UNCHANGED <<settings, seg, arch, uploads, disk, task, answers, results,
                 batch, api, ctr>>

\* lines 566-575
GetUploadStatus(upload_id) ==
  /\ resp' = IF upload_id \in DOMAIN uploads
               THEN [op |-> "upload_status", upload_id |-> upload_id,
                     status_code |-> 200, body |-> uploads[upload_id]]
               ELSE [op |-> "upload_status", upload_id |-> upload_id,
                     status_code |-> 404, body |-> "Upload not found"]
  /\ UNCHANGED <<settings, seg, arch, uploads, disk, task, answers, results,
                 batch, api, ctr>>

\* lines 732-755: the summary of one upload whose text is set (for any
\* other, line 739 raises)
GradingSummary(upload_id, exam_id) ==
  LET upload  == uploads[upload_id]
      graded  == {r \in results : /\ r.exam_id = exam_id
                                   /\ r.student_id = upload.student_id}
  IN  [upload_id |-> upload_id,
       student_id |-> upload.student_id,
       processing_status |-> upload.processing_status,
       has_ocr_text |-> Len(upload.ocr_extracted_text) > 0,
       student_answers_count |-> Cardinality(AnswersOf(answers, upload_id)),
       grading_results_count |-> Cardinality(graded),
       is_graded |-> Cardinality(graded) > 0]

\* lines 712-770.  For a row whose text was never set, the len() of line
\* 739 is given None and raises; line 769 catches it and the request is
\* answered 500.
GetExamGradingStatus(exam_id) ==
  /\ resp' =
       IF \E u \in UploadsOfExam(uploads, exam_id) :
             "ocr_extracted_text" \notin DOMAIN uploads[u]
         THEN [op |-> "grading_status", exam_id |-> exam_id, status_code |-> 500,
               body |-> "object of type 'NoneType' has no len()"]
         ELSE [op |-> "grading_status", exam_id |-> exam_id, status_code |-> 200,
               body |-> [total_uploads |->
                           Cardinality(UploadsOfExam(uploads, exam_id)),
                         uploads |-> {GradingSummary(u, exam_id) :
                                        u \in UploadsOfExam(uploads, exam_id)}]]
  /\ UNCHANGED <<settings, seg, arch, uploads, disk, task, answers, results,
                 batch, api, ctr>>

(***************************************************************************)
(* The parser on its own                                                   *)
(***************************************************************************)
MaxTextLen == 4      \* atoms of a text given to the parser

TextAtoms == {"Q1:", "Question 2:", "q2:", "cat", " ", "\n"}

ExampleText ==
  <<"Q1:", " ", "cat", "\n", "Q2:", " ", "dog", "\n", "Q1:", " ", "feline">>

SegmentTexts == SeqsUpTo(TextAtoms, MaxTextLen) \cup {ExampleText}

IdleSeg == [pc |-> "idle", text |-> <<>>, parsed |-> <<>>]

\* line 466: parsed_answers = ocr_service._parse_answers_botanical(ocr_text)
Segment ==
  /\ seg.pc = "given"
  /\ seg' = [seg EXCEPT !.pc = "done", !.parsed = ParseAnswers(seg.text)]
  /\ UNCHANGED <<settings, uploads, disk, task, answers, results, batch, api,
                 ctr, arch, resp>>

Init ==
  /\ settings \in SettingsChoices
  /\ uploads = <<>>
  /\ disk = <<>>
  /\ task = <<>>
  /\ answers = {}
  /\ results = {}
  /\ batch = IdleBatch
  /\ api = IdleApi
  /\ ctr = [batch |-> 0, api |-> 0, uploads |-> 0, uuid |-> 0, zip |-> 0, del |-> 0,
            faults |-> 0]
  /\ arch = IdleArch
  /\ resp = IdleResp
  /\ seg = IdleSeg

(***************************************************************************)
(* Batch ingestion: every request shape, and the tasks it dispatches.      *)
(***************************************************************************)
IngestFiles == SeqsUpTo(FileChoices, MaxFiles) \ {<<>>}

NextIngest ==
  \/ \E e \in ExamIds, f \in IngestFiles, s \in StudentIdsChoices, t \in Teachers,
        r \in BOOLEAN :
        batch.pc = "idle" /\ BatchUploadCall(e, f, s, t, r)
  \/ \E fault \in OpenFaults : BatchUploadItem(fault)
  \/ \E fault \in WriteFaults : BatchItemWrite(fault)
  \/ \E fault \in InsertFaults : BatchItemInsert(fault)
  \/ BatchUploadReturn
  \/ \E u \in 1..MaxUploads, a, b \in BOOLEAN : WorkerStart(u, a, b)
  \/ \E u \in 1..MaxUploads, a, b \in BOOLEAN : WorkerRead(u, a, b)
  \/ \E u \in 1..MaxUploads, o \in OcrOutcomes, a, b \in BOOLEAN :
        WorkerExtract(u, o, a, b)
  \/ \E u \in 1..MaxUploads, g \in GradeOutcomes : WorkerGrade(u, g)

SpecIngest == Init /\ [][NextIngest]_vars

(***************************************************************************)
(* Ingestion of an archive: every request shape, and the tasks it          *)
(* dispatches.                                                             *)
(***************************************************************************)
NextArchive ==
  \/ \E e \in ExamIds, n \in ZipNames, a \in ArchiveChoices, t \in Teachers,
        r \in BOOLEAN :
        arch.pc = "idle" /\ ZipUploadCall(e, n, a, t, r)
  \/ \E save_raises, removal_fails \in BOOLEAN, files \in WalkFiles(arch.archive) :
        ZipUnpack(save_raises, files, removal_fails)
  \/ \E fault \in EntryOpenFaults : ZipEntry(fault)
  \/ \E fault \in WriteFaults : ZipEntryWrite(fault)
  \/ \E fault \in InsertFaults : ZipEntryInsert(fault)
  \/ \E removal_fails \in BOOLEAN : ZipReturn(removal_fails)
  \/ \E u \in 1..MaxUploads, a, b \in BOOLEAN : WorkerStart(u, a, b)
  \/ \E u \in 1..MaxUploads, a, b \in BOOLEAN : WorkerRead(u, a, b)
  \/ \E u \in 1..MaxUploads, o \in OcrOutcomes, a, b \in BOOLEAN :
        WorkerExtract(u, o, a, b)
  \/ \E u \in 1..MaxUploads, g \in GradeOutcomes : WorkerGrade(u, g)

SpecArchive == Init /\ [][NextArchive]_vars

(***************************************************************************)
(* Both ingestion endpoints side by side: one batch request and one ZIP    *)
(* request, of files named as archive entries are, the tasks they          *)
(* dispatch, run to their end, and the deletion of an upload.  Every       *)
(* failure of a call may happen at every step.                             *)
(***************************************************************************)
\* a paper both endpoints take, a text file, and a name with no student id
IngestionEntries ==
  { [filename |-> <<"STU001", "_", "exam", ".", "pdf">>,  size |-> 1],
    [filename |-> <<"STU001", "_", "notes", ".", "txt">>, size |-> 1],
    [filename |-> <<"exam", ".", "pdf">>,                 size |-> 1] }

IngestionFiles == SeqsUpTo(IngestionEntries, MaxIngestionItems) \ {<<>>}

IngestionStudentIds ==
  { <<"STU001">>, <<"STU002">>, <<"STU001", ",", "STU001">> }

IngestionArchives ==
  { [corrupt |-> FALSE, entries |-> e] :
      e \in SeqsUpTo(IngestionEntries, MaxIngestionItems) \ {<<>>} }

\* what the extraction may give: an exception, an error, no text, a text
\* with an answer
IngestionOcrOutcomes ==
  { OcrRaise,
    [status |-> "error", text |-> <<>>],
    [status |-> "success", text |-> <<>>],
    [status |-> "success", text |-> <<"Q2:", " ", "dog">>] }

InitIngestion ==
  /\ Init
  /\ settings = [ALLOWED_EXTENSIONS |-> <<"pdf", ",", "jpg">>, MAX_FILE_SIZE |-> 1]

NextIngestion ==
  \/ \E f \in IngestionFiles, s \in IngestionStudentIds, t \in Teachers,
        r \in BOOLEAN :
        batch.pc = "idle" /\ BatchUploadCall("E1", f, s, t, r)
  \/ \E fault \in OpenFaults : BatchUploadItem(fault)
  \/ \E fault \in WriteFaults : BatchItemWrite(fault)
  \/ \E fault \in InsertFaults : BatchItemInsert(fault)
  \/ BatchUploadReturn
  \/ \E a \in IngestionArchives, t \in Teachers, r \in BOOLEAN :
        arch.pc = "idle" /\ ZipUploadCall("E1", <<"papers", ".", "zip">>, a, t, r)
  \/ \E save_raises, removal_fails \in BOOLEAN, files \in WalkFiles(arch.archive) :
        ZipUnpack(save_raises, files, removal_fails)
  \/ \E fault \in EntryOpenFaults : ZipEntry(fault)
  \/ \E fault \in WriteFaults : ZipEntryWrite(fault)
  \/ \E fault \in InsertFaults : ZipEntryInsert(fault)
  \/ \E removal_fails \in BOOLEAN : ZipReturn(removal_fails)
  \/ \E u \in 1..MaxUploads, a, b \in BOOLEAN : WorkerStart(u, a, b)
  \/ \E u \in 1..MaxUploads, a, b \in BOOLEAN : WorkerRead(u, a, b)
  \/ \E u \in 1..MaxUploads, o \in IngestionOcrOutcomes, a, b \in BOOLEAN :
        WorkerExtract(u, o, a, b)
  \/ \E u \in 1..MaxUploads, g \in GradeOutcomes : WorkerGrade(u, g)
  \/ \E u \in DOMAIN uploads, fault \in DeleteFaults :
        DeleteUpload(u, uploads[u].uploaded_by_teacher_id, fault)

SpecIngestion == InitIngestion /\ [][NextIngestion]_vars

(***************************************************************************)
(* The parser alone: one text, parsed once.                                *)
(***************************************************************************)
InitSegment ==
  /\ settings \in SettingsChoices
  /\ uploads = <<>>
  /\ disk = <<>>
  /\ task = <<>>
  /\ answers = {}
  /\ results = {}
  /\ batch = IdleBatch
  /\ api = IdleApi
  /\ ctr = [batch |-> 0, api |-> 0, uploads |-> 0, uuid |-> 0, zip |-> 0, del |-> 0,
            faults |-> 0]
  /\ arch = IdleArch
  /\ resp = IdleResp
  /\ \E t \in SegmentTexts : seg = [IdleSeg EXCEPT !.pc = "given", !.text = t]

NextSegment == Segment

SpecSegment == InitSegment /\ [][NextSegment]_vars

(***************************************************************************)
(* Properties of batch ingestion (SpecIngest)                              *)
(***************************************************************************)
\* C1: for every batch call whose file count equals its identifier count
\* and whose exam exists, the report lists every file exactly once:
\* len(succeeded) + len(failed) = len(files), whatever fails per item.
BatchReportCoversEveryFile ==
  /\ batch.pc \in {"loop", "write", "insert"} =>
       Len(batch.upload_results) + Len(batch.failed_uploads) = batch.idx
  /\ batch.pc = "returned" =>
       Len(batch.upload_results) + Len(batch.failed_uploads) = Len(batch.files)

\* a report of two files, one accepted and one refused
BatchReportMixed ==
  /\ batch.pc = "returned"
  /\ Len(batch.files) = 2
  /\ Len(batch.upload_results) = 1
  /\ Len(batch.failed_uploads) = 1

\* item i taken alone: its student is on the roster, it has a filename of
\* an allowed type and size, and neither its open, its write nor its insert
\* failed
ItemAccepted(i) ==
  /\ batch.student_id_list[i] \in Roster
  /\ batch.files[i].filename # NoFilename
  /\ SeqContains(AllowedExtensionsBatch(settings),
                 FileExtension(batch.files[i].filename))
  /\ batch.files[i].size <= settings.MAX_FILE_SIZE
  /\ batch.faults[i] = "none"

RECURSIVE ItemsWhere(_, _)
ItemsWhere(k, accepted) ==
  IF k = 0 THEN <<>>
  ELSE IF ItemAccepted(k) = accepted THEN Append(ItemsWhere(k - 1, accepted), k)
  ELSE ItemsWhere(k - 1, accepted)

\* C2: partial-failure isolation: whether an item is reported as succeeded
\* (with its upload row created) or as failed depends on that item alone;
\* the items dealt with so far are exactly the first idx ones, failed or
\* not.  A batch for STU001, STU002 with STU002 unknown reports one success
\* for STU001 and one failure naming STU002.
BatchItemsIsolated ==
  batch.pc \in {"loop", "write", "insert", "returned"} =>
    LET done == IF batch.pc = "returned" THEN Len(batch.files) ELSE batch.idx
        ok   == ItemsWhere(done, TRUE)
        bad  == ItemsWhere(done, FALSE)
    IN  /\ Len(batch.faults) = done
        /\ Len(batch.upload_results) = Len(ok)
        /\ \A j \in 1..Len(ok) :
             /\ batch.upload_results[j].student_id = batch.student_id_list[ok[j]]
             /\ batch.upload_results[j].file_name = batch.files[ok[j]].filename
             /\ batch.upload_results[j].upload_id \in DOMAIN uploads
        /\ Len(batch.failed_uploads) = Len(bad)
        /\ \A j \in 1..Len(bad) :
             batch.failed_uploads[j].student_id = batch.student_id_list[bad[j]]
        /\ ( /\ batch.pc = "returned"
             /\ batch.student_id_list = << <<"STU001">>, <<"STU002">> >>
             /\ ItemAccepted(1) )
           => /\ Len(batch.upload_results) = 1
              /\ batch.upload_results[1].student_id = <<"STU001">>
              /\ Len(batch.failed_uploads) = 1
              /\ batch.failed_uploads[1].student_id = <<"STU002">>
              /\ batch.failed_uploads[1].error = "Student not found"

\* the first item failed and the second was still accepted
BatchSecondItemSurvives ==
  /\ batch.pc = "returned"
  /\ Len(batch.files) = 2
  /\ ~ItemAccepted(1)
  /\ ItemAccepted(2)
  /\ Len(batch.upload_results) = 1
  /\ batch.upload_results[1].upload_id \in DOMAIN uploads

\* C3: the call fails as a whole exactly when the counts differ or the
\* exam is missing, and then nothing is written, no row is created and no
\* task is started; a call that entered its loop ends with a report.
BatchWholeCallErrors ==
  [][ /\ (ctr'.batch # ctr.batch) =>
           /\ (batch'.pc = "raised") <=>
                 \/ Len(batch'.files) # Len(batch'.student_id_list)
                 \/ batch'.exam_id \notin Exams
           /\ (batch'.pc = "raised") =>
                 /\ batch'.status_code \in {400, 404}
                 /\ UNCHANGED <<uploads, disk, task>>
      /\ (batch.pc = "raised" /\ ctr'.batch = ctr.batch) =>
           /\ batch' = batch
           /\ UNCHANGED <<uploads, disk, task>>
      /\ (batch.pc \in {"loop", "write", "insert"}) =>
            batch'.pc \in {"loop", "write", "insert", "returned"}
      /\ (batch.pc = "returned" /\ ctr'.batch = ctr.batch) => batch' = batch
    ]_vars


(***************************************************************************)
(* Properties of background processing and grading (Spec)                  *)
(***************************************************************************)
Status(u) == uploads[u].processing_status

\* C4: guaranteed finalization: once the worker of a submission has ended,
\* normally or by an exception, the submission is processed or failed.
WorkerAlwaysFinalizes ==
  \A u \in DOMAIN task :
    (task[u].pc = "done" /\ u \in DOMAIN uploads) =>
       Status(u) \in {"processed", "failed"}

SpecTransitions ==
  { <<"uploaded", "processing">>, <<"processing", "processed">>,
    <<"processing", "failed">>, <<"processed", "processing">> }

StatusChangesWithin(allowed) ==
  \A u \in DOMAIN uploads \cap DOMAIN uploads' :
    LET old == uploads[u].processing_status
        new == uploads'[u].processing_status
    IN  old # new =>
          /\ <<old, new>> \in allowed
          /\ (old = "processed" /\ new = "processing") =>
                (api'.op = "reprocess" /\ ctr'.api # ctr.api)

\* C5 as stated: every change of processing_status is uploaded->processing,
\* processing->processed, processing->failed or (by reprocess only)
\* processed->processing.
OnlySpecTransitions == [][StatusChangesWithin(SpecTransitions)]_vars

\* C5 as the code has it: the transitions above, and uploaded->failed when
\* the worker's first update raises and its handler records the failure.
OnlyCodeTransitions ==
  [][StatusChangesWithin(SpecTransitions \cup {<<"uploaded", "failed">>})]_vars

\* the first update of a worker raised and its handler marked the upload,
\* still uploaded, as failed
FailedStraightFromUploaded ==
  \E u \in DOMAIN uploads :
    /\ task[u].pc = "done"
    /\ task[u].read = "none"
    /\ Status(u) = "failed"
    /\ uploads[u].error_message = "APIError"

\* C6: a submission whose extraction reports failure or blank text ends
\* failed with a non-empty error_message, its worker never grades, and a
\* later grading of it grades nothing and creates no row.
ExtractionFailureEndsFailed ==
  \A u \in DOMAIN task :
    (task[u].pc = "done" /\ task[u].ocr = "failed" /\ u \in DOMAIN uploads) =>
       /\ Status(u) = "failed"
       /\ uploads[u].error_message # ""
       /\ task[u].ctx.state = "idle"
       /\ AnswersOf(answers, u) = {}
       /\ ResultsOf(answers, results, u) = {}
       /\ (api.op = "reprocess" /\ api.target = u /\ api.pc = "returned") =>
             api.ctx.graded = 0

\* C7: grading the same unchanged submission a second time, after a first
\* grading that ended without a failure and with no other grading under
\* way, gives the same graded_count and leaves the numbers of
\* StudentAnswer and GradingResult rows as they were.
GradeSubmissionIdempotent ==
  ( /\ api.op = "reprocess"
    /\ api.pc = "returned"
    /\ api.target \in DOMAIN uploads
    /\ api.ctx.pre.quiet
    /\ ~api.ctx.raised
    /\ api.ctx.failedQ = {} )
  => /\ api.ctx.graded = task[api.target].ctx.graded
     /\ Cardinality(AnswersOf(answers, api.target)) = api.ctx.pre.nA
     /\ Cardinality(ResultsOf(answers, results, api.target)) = api.ctx.pre.nR

\* C8: at most one StudentAnswer and one GradingResult per submission and
\* question.
AtMostOnePairPerQuestion ==
  \A u \in DOMAIN uploads :
    \A i \in 1..Len(Questions(uploads[u].exam_id)) :
      LET qid == Questions(uploads[u].exam_id)[i].id
      IN  /\ Cardinality({a \in AnswersOf(answers, u) : a.question_id = qid}) <= 1
          /\ Cardinality({r \in ResultsOf(answers, results, u) :
                            r.question_id = qid}) <= 1

\* the invocations of auto_grade_upload that have ended
EndedInvocations ==
  {task[u].ctx : u \in {v \in DOMAIN task : task[v].pc = "done"}}
    \cup (IF api.pc = "returned" THEN {api.ctx} ELSE {})

\* C9: when the grading of one question fails, every other question of the
\* submission that has a parsed answer is still graded and persisted.
QuestionFailureIsolated ==
  \A c \in EndedInvocations :
    (c.state = "done" /\ c.upload \in DOMAIN uploads
       /\ ~NoOcrText(uploads[c.upload])) =>
      LET qs     == Questions(uploads[c.upload].exam_id)
          parsed == ParseAnswers(uploads[c.upload].ocr_extracted_text)
      IN  \A i \in 1..Len(qs) :
            ( /\ StudentAnswer(parsed, qs[i].question_number) # <<>>
              /\ qs[i].id \notin c.failedQ )
            => \E a \in AnswersOf(answers, c.upload) :
                  /\ a.question_id = qs[i].id
                  /\ \E r \in results : r.student_answer_id = a.id

\* C10: regrade_all reports a submission whose grading raised as failed and
\* goes on with the others; succeeded + failed = total.
RegradeAllReportsFailures ==
  (api.op = "regrade_all" /\ api.pc = "returned") =>
     /\ Len(api.results) = Len(api.raised_log)
     /\ \A i \in 1..Len(api.results) :
          (api.results[i].status = "failed") <=> api.raised_log[i]


(***************************************************************************)
(* The whole service: one ingestion request, the tasks, one reprocess or   *)
(* regrade-all request and one delete request                              *)
(***************************************************************************)
\* the requests of the full model: papers that pass or fail validation
ServiceFiles ==
  SeqsUpTo({[filename |-> <<"exam", ".", "pdf">>, size |-> 1]}, MaxFiles) \ {<<>>}

ServiceStudentIds ==
  { <<"STU001">>, <<"STU001", ",", "STU001">>,
    <<"STU001", ",", "STU001", ",", "STU001">> }

\* the archives of the full model: unreadable, or holding papers
ServiceEntries == {[filename |-> <<"STU001", "_", "exam", ".", "pdf">>, size |-> 1]}

ServiceArchives ==
  { [corrupt |-> c, entries |-> e] :
      c \in BOOLEAN, e \in SeqsUpTo(ServiceEntries, MaxEntries) \ {<<>>} }

InitService ==
  /\ Init
  /\ settings = [ALLOWED_EXTENSIONS |-> <<"pdf", ",", "jpg">>, MAX_FILE_SIZE |-> 1]

\* Every handler of the router that writes the store or the upload
\* directory, and the tasks; one ingestion request, batch or ZIP, and at
\* most MaxFaults steps in which a call fails.
Next ==
  \/ \E e \in ExamIds, f \in ServiceFiles, s \in ServiceStudentIds, t \in Teachers,
        r \in BOOLEAN :
        /\ ctr.batch + ctr.zip < MaxIngestCalls
        /\ BatchUploadCall(e, f, s, t, r) /\ WithinFaults'
  \/ \E fault \in OpenFaults : BatchUploadItem(fault) /\ WithinFaults'
  \/ \E fault \in WriteFaults : BatchItemWrite(fault) /\ WithinFaults'
  \/ \E fault \in InsertFaults : BatchItemInsert(fault) /\ WithinFaults'
  \/ BatchUploadReturn
  \/ \E e \in ExamIds, a \in ServiceArchives, t \in Teachers, r \in BOOLEAN :
        /\ ctr.batch + ctr.zip < MaxIngestCalls
        /\ ZipUploadCall(e, <<"papers", ".", "zip">>, a, t, r) /\ WithinFaults'
  \/ \E save_raises, removal_fails \in BOOLEAN, files \in WalkFiles(arch.archive) :
        ZipUnpack(save_raises, files, removal_fails) /\ WithinFaults'
  \/ \E fault \in EntryOpenFaults : ZipEntry(fault) /\ WithinFaults'
  \/ \E fault \in WriteFaults : ZipEntryWrite(fault) /\ WithinFaults'
  \/ \E fault \in InsertFaults : ZipEntryInsert(fault) /\ WithinFaults'
  \/ \E removal_fails \in BOOLEAN : ZipReturn(removal_fails) /\ WithinFaults'
  \/ \E u \in 1..MaxUploads, a, b \in BOOLEAN :
        WorkerStart(u, a, b) /\ WithinFaults'
  \/ \E u \in 1..MaxUploads, a, b \in BOOLEAN :
        WorkerRead(u, a, b) /\ WithinFaults'
  \/ \E u \in 1..MaxUploads, o \in OcrOutcomes, a, b \in BOOLEAN :
        WorkerExtract(u, o, a, b) /\ WithinFaults'
  \/ \E u \in 1..MaxUploads, g \in GradeOutcomes :
        WorkerGrade(u, g) /\ WithinFaults'
  \/ \E u \in 1..MaxUploads : ReprocessCall(u)
  \/ \E e \in ExamIds, q \in SeqsUpTo(1..MaxUploads, MaxUploads) :
        RegradeAllCall(e, q)
  \/ \E g \in GradeOutcomes : ApiGrade(g) /\ WithinFaults'
  \/ \E u \in DOMAIN uploads, fault \in DeleteFaults :
        DeleteUpload(u, uploads[u].uploaded_by_teacher_id, fault) /\ WithinFaults'

Spec == InitService /\ [][Next]_vars

(***************************************************************************)
(* Properties of archive ingestion (SpecArchive)                           *)
(***************************************************************************)
\* the file the loop of the ZIP request deals with next
NextFile == arch.files[arch.idx + 1]

\* the file came out of the archive: a member was unpacked to its place
IsMember(file) ==
  \E k \in 1..Len(arch.archive.entries) :
    /\ MemberDir(arch.archive.entries[k].filename) = file.root
    /\ BaseName(arch.archive.entries[k].filename) = file.filename

\* the archive member is not hidden and its name holds no underscore
BadlyNamed(file) ==
  /\ IsMember(file)
  /\ file.filename[1] # "."
  /\ ~SeqContains(file.filename, "_")

\* C11: every archive entry that is not hidden and whose name holds no
\* underscore is reported as a failure with the invalid-format error,
\* creates no exam_uploads row, no stored file and no background task, and
\* the loop goes on: when the call has returned, each such entry has its
\* place in the failures.
ArchiveBadNameReported ==
  /\ [][ (/\ arch.pc = "loop"
           /\ arch'.idx = arch.idx + 1
           /\ BadlyNamed(NextFile))
         => (/\ arch'.pc = "loop"
             /\ arch'.failed_uploads =
                   Append(arch.failed_uploads,
                          [file |-> NextFile.filename, error |-> FormatError])
             /\ arch'.upload_results = arch.upload_results
             /\ uploads' = uploads
             /\ disk' = disk
             /\ task' = task) ]_vars
  /\ [](arch.pc = "returned" =>
          \A i \in 1..Len(arch.files) :
            BadlyNamed(arch.files[i]) =>
              \E j \in 1..Len(arch.failed_uploads) :
                /\ arch.failed_uploads[j].file = arch.files[i].filename
                /\ arch.failed_uploads[j].error = FormatError)

\* C12: whenever the scratch directory of a ZIP request has been made, it
\* is gone once the request has returned or raised.
ScratchRemovedOnExit ==
  arch.pc \in {"returned", "raised"} => arch.temp_dir # "exists"

(***************************************************************************)
(* Properties of the background workers                                    *)
(***************************************************************************)
\* the uploads whose task has started and has not finished
InFlight ==
  {u \in DOMAIN task : task[u].pc \in {"reading", "extracting", "grading"}}

\* a pool size below the number of uploads the service takes
WorkerPoolSize == MaxUploads - 1

\* C13: at every moment the number of uploads being processed by background
\* tasks (started, extraction or grading not finished) is at most the
\* configured size of the worker pool.
BoundedConcurrency == Cardinality(InFlight) <= WorkerPoolSize

\* C14: an upload is never deleted while its worker is between the mark
\* "processing" and the result of the extraction: as long as the worker is
\* there, the row it will update exists and the file it reads is stored.
DeleteWaitsForWorker ==
  \A u \in DOMAIN task :
    task[u].pc \in {"reading", "extracting"} =>
      /\ u \in DOMAIN uploads
      /\ task[u].file_path \in DOMAIN disk

\* the task of upload u takes a step
WorkerStepOf(u) == u \in DOMAIN task /\ task'[u] # task[u]

\* C24: a step of the task of one upload, failing or not, writes only that
\* upload's row and child rows: the row, the student_answers and
\* grading_results rows and the task of every other upload stay as they
\* are; and the task of an upload that has not ended can always take its
\* next step, whatever became of the others.
SiblingsUntouched ==
  /\ [][ \A u \in DOMAIN task :
           WorkerStepOf(u) =>
             /\ \A a \in answers' \ answers : a.upload_id = u
             /\ \A r \in results' \ results :
                  \E a \in AnswersOf(answers', u) : a.id = r.student_answer_id
             /\ \A v \in DOMAIN task \ {u} :
                  /\ task'[v] = task[v]
                  /\ v \in DOMAIN uploads =>
                        (v \in DOMAIN uploads' /\ uploads'[v] = uploads[v])
                  /\ AnswersOf(answers', v) = AnswersOf(answers, v)
                  /\ ResultsOf(answers', results', v)
                       = ResultsOf(answers, results, v) ]_vars
  /\ [](\A v \in DOMAIN task :
          /\ task[v].pc = "created" =>
                ENABLED (\E a, b \in BOOLEAN : WorkerStart(v, a, b))
          /\ task[v].pc = "reading" =>
                ENABLED (\E a, b \in BOOLEAN : WorkerRead(v, a, b))
          /\ task[v].pc = "extracting" =>
                ENABLED (\E o \in OcrOutcomes, a, b \in BOOLEAN :
                           WorkerExtract(v, o, a, b))
          /\ task[v].pc = "grading" =>
                ENABLED (\E g \in GradeOutcomes : WorkerGrade(v, g)))

\* the extraction of the first upload raised and its grading never began;
\* the second upload is processed and graded
SiblingFailedOtherGraded ==
  /\ DOMAIN uploads = {1, 2}
  /\ task[1].ocr = "raise"
  /\ uploads[1].processing_status = "failed"
  /\ AnswersOf(answers, 1) = {}
  /\ uploads[2].processing_status = "processed"
  /\ task[2].pc = "done"
  /\ task[2].ctx.graded = 2
  /\ Cardinality(AnswersOf(answers, 2)) = 2

(***************************************************************************)
(* Deleting uploads: ingestion, the workers and every delete request.      *)
(***************************************************************************)
NextDelete ==
  \/ \E e \in ExamIds, f \in ServiceFiles, s \in ServiceStudentIds, t \in Teachers,
        r \in BOOLEAN :
        BatchUploadCall(e, f, s, t, r)
  \/ \E fault \in OpenFaults : BatchUploadItem(fault)
  \/ \E fault \in WriteFaults : BatchItemWrite(fault)
  \/ \E fault \in InsertFaults : BatchItemInsert(fault)
  \/ BatchUploadReturn
  \/ \E u \in 1..MaxUploads, a, b \in BOOLEAN : WorkerStart(u, a, b)
  \/ \E u \in 1..MaxUploads, a, b \in BOOLEAN : WorkerRead(u, a, b)
  \/ \E u \in 1..MaxUploads, o \in OcrOutcomes, a, b \in BOOLEAN :
        WorkerExtract(u, o, a, b)
  \/ \E u \in 1..MaxUploads, g \in GradeOutcomes : WorkerGrade(u, g)
  \/ \E u \in 1..MaxUploads, t \in Requesters, fault \in DeleteFaults :
        DeleteUpload(u, t, fault)

SpecDelete == InitService /\ [][NextDelete]_vars

\* C15: a delete request for an upload that does not exist is answered 404;
\* one by a requester who is not the uploader is answered 403 and leaves
\* the row and the stored file as they were; any other removes the stored
\* file and the row, and no other row or file.
DeleteContract ==
  [][ ctr'.del = ctr.del + 1 =>
        LET u == resp'.upload_id
            t == resp'.teacher_id
        IN  IF u \notin DOMAIN uploads
              THEN /\ resp'.status_code = 404
                   /\ uploads' = uploads
                   /\ disk' = disk
            ELSE IF uploads[u].uploaded_by_teacher_id # t
              THEN /\ resp'.status_code = 403
                   /\ uploads' = uploads
                   /\ disk' = disk
            ELSE /\ resp'.status_code = 200
                 /\ DOMAIN uploads' = DOMAIN uploads \ {u}
                 /\ \A v \in DOMAIN uploads' : uploads'[v] = uploads[v]
                 /\ DOMAIN disk' = DOMAIN disk \ {uploads[u].file_path}
                 /\ \A p \in DOMAIN disk' : disk'[p] = disk[p] ]_vars

\* C16: a reprocess request for an upload that exists puts it through
\* "processing": the step that takes the request marks the row so.
ReprocessEntersProcessing ==
  [][ (/\ ctr'.api = ctr.api + 1
       /\ api'.op = "reprocess"
       /\ api'.target \in DOMAIN uploads)
      => (/\ api'.target \in DOMAIN uploads'
          /\ uploads'[api'.target].processing_status = "processing") ]_vars

(***************************************************************************)
(* Properties of the parser (SpecSegment)                                  *)
(***************************************************************************)
\* the positions of the markers of number n in a text
MarkersOf(text, n) == {i \in 1..Len(text) : MarkerNumber(text[i]) = n}

\* the text between the marker at position i and the next marker, trimmed
CapturedAt(text, i) ==
  LET later == {j \in (i + 1)..Len(text) : MarkerNumber(text[j]) # 0}
      stop  == IF later = {} THEN Len(text) + 1
               ELSE CHOOSE j \in later : \A k \in later : j <= k
  IN  Strip(SubSeq(text, i + 1, stop - 1))

\* C17: the mapping the parser returns is a function of the text alone, and
\* for every question number it holds the trimmed text captured by the last
\* marker of that number and nothing of an earlier one; a number with no
\* marker, or whose last segment is whitespace only, is not in the mapping;
\* "Q1: cat\nQ2: dog\nQ1: feline" gives {1: "feline", 2: "dog"}.
SegmentLastWins ==
  seg.pc = "done" =>
    /\ seg.parsed = ParseAnswers(seg.text)
    /\ DOMAIN seg.parsed \subseteq 1..3
    /\ \A n \in 1..3 :
         LET ms == MarkersOf(seg.text, n)
         IN  IF ms = {} THEN n \notin DOMAIN seg.parsed
             ELSE LET last == CHOOSE i \in ms : \A k \in ms : k <= i
                  IN  IF CapturedAt(seg.text, last) = <<>>
                        THEN n \notin DOMAIN seg.parsed
                        ELSE /\ n \in DOMAIN seg.parsed
                             /\ seg.parsed[n] = CapturedAt(seg.text, last)
    /\ seg.text = ExampleText =>
         seg.parsed = (1 :> <<"feline">>) @@ (2 :> <<"dog">>)

\* the example text has been parsed
SegmentExampleParsed ==
  /\ seg.pc = "done"
  /\ seg.text = ExampleText
  /\ DOMAIN seg.parsed = {1, 2}
  /\ seg.parsed[1] = <<"feline">>

(***************************************************************************)
(* Properties of the stages of one upload (Spec)                           *)
(***************************************************************************)
\* the invocations of auto_grade_upload that wait for a grading call
AwaitingInvocations ==
  {task[u].ctx : u \in {v \in DOMAIN task : task[v].ctx.state = "await"}}
    \cup (IF api.ctx.state = "await" THEN {api.ctx} ELSE {})

\* C18: the stages of one upload are ordered: while the extraction is under
\* way the row is marked processing; an invocation of auto_grade_upload
\* waits for a grading call only on a row that is processed and holds the
\* text it parsed; and a row that is uploaded or processing has no text, no
\* student_answers row and no grading_results row.
StagesOrdered ==
  /\ \A u \in DOMAIN uploads :
        /\ task[u].pc \in {"reading", "extracting"} => Status(u) = "processing"
        /\ Status(u) \in {"uploaded", "processing"} =>
              /\ NoOcrText(uploads[u])
              /\ task[u].pc \in {"created", "reading", "extracting", "done"}
              /\ AnswersOf(answers, u) = {}
              /\ ResultsOf(answers, results, u) = {}
  /\ \A c \in AwaitingInvocations :
        c.upload \in DOMAIN uploads =>
          /\ Status(c.upload) = "processed"
          /\ ~NoOcrText(uploads[c.upload])
          /\ c.parsed = ParseAnswers(uploads[c.upload].ocr_extracted_text)

\* the worker of a processed upload has written the rows of the first
\* question and waits for the grading of the second
WorkerGradingSecondQuestion ==
  \E u \in DOMAIN uploads :
    /\ Status(u) = "processed"
    /\ task[u].pc = "grading"
    /\ task[u].ctx.idx = 2
    /\ AnswersOf(answers, u) # {}
    /\ ResultsOf(answers, results, u) # {}

\* the row has nothing to grade: no extracted text, or an exam without
\* questions
NothingToGrade(row) ==
  NoOcrText(row) \/ Questions(row.exam_id) = <<>>

\* the invocation began and ended in the step, graded nothing, raised
\* nothing, and no row was written
NoOpInvocation(ctx) ==
  /\ ctx.state = "done"
  /\ ctx.graded = 0
  /\ ~ctx.raised
  /\ ctx.failedQ = {}
  /\ answers' = answers
  /\ results' = results

\* the entries a regrade-all request adds to its report in the step
NewRegradeEntries ==
  IF api'.op # "regrade_all" THEN {}
  ELSE (IF ctr'.api = ctr.api THEN Len(api.results) + 1 ELSE 1)
         ..Len(api'.results)

\* C19: an invocation of auto_grade_upload for an upload without extracted
\* text, or of an exam without questions, makes no grading call, writes no
\* row, grades nothing and raises nothing, whether the worker, a reprocess
\* request or a regrade-all request made it; the request that made it is
\* answered normally, and regrade-all reports the upload as a success.
GradeNothingIsNoOp ==
  /\ [][ /\ \A u \in DOMAIN uploads' \cap DOMAIN task :
               (/\ task[u].ctx.state = "idle"
                /\ task'[u].ctx # task[u].ctx
                /\ NothingToGrade(uploads'[u]))
               => NoOpInvocation(task'[u].ctx)
         /\ (/\ ctr'.api = ctr.api + 1
              /\ api'.op = "reprocess"
              /\ api'.target \in DOMAIN uploads
              /\ NothingToGrade(uploads[api'.target]))
             => (/\ NoOpInvocation(api'.ctx)
                 /\ api'.pc = "returned"
                 /\ api'.status_code = 200)
         /\ \A i \in NewRegradeEntries :
               LET u == api'.results[i].upload_id
               IN  (u \in DOMAIN uploads /\ NothingToGrade(uploads[u])) =>
                     (/\ api'.results[i].status = "success"
                      /\ ~api'.raised_log[i]
                      /\ AnswersOf(answers', u) = AnswersOf(answers, u)
                      /\ ResultsOf(answers', results', u)
                            = ResultsOf(answers, results, u)
                      /\ (i = Len(api'.results) /\ api'.pc = "returned") =>
                            (/\ api'.ctx.upload = u
                             /\ api'.ctx.state = "done"
                             /\ api'.ctx.graded = 0
                             /\ ~api'.ctx.raised
                             /\ api'.status_code = 200)) ]_vars
  /\ [](\A c \in AwaitingInvocations :
          c.upload \in DOMAIN uploads => ~NothingToGrade(uploads[c.upload]))

\* the worker of a processed upload of the exam without questions has
\* ended, and a regrade-all request for that exam has returned
GradeNothingDone ==
  /\ api.op = "regrade_all"
  /\ api.pc = "returned"
  /\ api.status_code = 200
  /\ api.exam_id = "E0"
  /\ Len(api.results) = 1
  /\ api.results[1].status = "success"
  /\ api.results[1].upload_id \in DOMAIN uploads
  /\ api.ctx.graded = 0
  /\ LET u == api.results[1].upload_id
     IN  /\ uploads[u].exam_id = "E0"
         /\ ~NoOcrText(uploads[u])
         /\ Status(u) = "processed"
         /\ task[u].ctx.state = "done"
         /\ task[u].ctx.graded = 0
  /\ answers = {}

\* the text of a row, empty when none is set
TextOf(row) == IF NoOcrText(row) THEN <<>> ELSE row.ocr_extracted_text

\* the questions of the upload's exam, by position, that have a parsed answer
AnsweredUpTo(u, n) ==
  LET qs     == Questions(uploads[u].exam_id)
      parsed == ParseAnswers(TextOf(uploads[u]))
  IN  {j \in 1..n : StudentAnswer(parsed, qs[j].question_number) # <<>>}

\* the rows of the upload are one answer and one result for each of the
\* questions at the positions js, and no other
RowsAreExactly(u, js) ==
  LET qs == Questions(uploads[u].exam_id)
  IN  /\ {a.question_id : a \in AnswersOf(answers, u)} = {qs[j].id : j \in js}
      /\ Cardinality(AnswersOf(answers, u)) = Cardinality(js)
      /\ Cardinality(ResultsOf(answers, results, u)) = Cardinality(js)
      /\ \A a \in AnswersOf(answers, u) :
           \E r \in results : r.student_answer_id = a.id

\* C20: in an invocation of auto_grade_upload in which no grading call and
\* no insert fails, the questions are taken in ascending number: when it
\* waits for the grading of a question, that question has a parsed answer
\* and the rows written are one pair for each earlier question with a parsed
\* answer; when it has ended the rows are one pair for each question with a
\* parsed answer and none for the others, and graded_count is the number of
\* pairs, at most the number of questions.
GradeVisitsAnswered ==
  /\ \A u \in DOMAIN uploads :
        LET c  == task[u].ctx
            qs == Questions(uploads[u].exam_id)
        IN  (ctr.api = 0 /\ ~c.raised /\ c.failedQ = {}) =>
              /\ c.state = "await" =>
                    /\ c.idx \in AnsweredUpTo(u, Len(qs))
                    /\ RowsAreExactly(u, AnsweredUpTo(u, c.idx - 1))
                    /\ c.graded = Cardinality(AnsweredUpTo(u, c.idx - 1))
              /\ c.state = "done" =>
                    /\ RowsAreExactly(u, AnsweredUpTo(u, Len(qs)))
                    /\ c.graded = Cardinality(AnsweredUpTo(u, Len(qs)))
                    /\ c.graded <= Len(qs)
  /\ ( /\ api.op = "reprocess"
        /\ api.pc = "returned"
        /\ api.target \in DOMAIN uploads
        /\ api.ctx.pre.quiet
        /\ ~api.ctx.raised
        /\ api.ctx.failedQ = {} )
      => LET u  == api.target
             qs == Questions(uploads[u].exam_id)
         IN  /\ api.ctx.graded = Cardinality(AnsweredUpTo(u, Len(qs)))
             /\ Cardinality(AnswersOf(answers, u))
                   = api.ctx.pre.nA + api.ctx.graded
             /\ Cardinality(ResultsOf(answers, results, u))
                   = api.ctx.pre.nR + api.ctx.graded

\* the worker has graded a paper that answers the second question only
GradedSecondQuestionOnly ==
  \E u \in DOMAIN uploads :
    /\ ctr.api = 0
    /\ TextOf(uploads[u]) = <<"Q2:", " ", "dog">>
    /\ uploads[u].exam_id = "E1"
    /\ task[u].ctx.state = "done"
    /\ ~task[u].ctx.raised
    /\ task[u].ctx.graded = 1
    /\ {a.question_id : a \in AnswersOf(answers, u)} = {"q2"}

(***************************************************************************)
(* Properties of the two ingestion endpoints (SpecIngestion)               *)
(***************************************************************************)
\* C21: for every item that succeeds the bytes are written before the row
\* is inserted and the row is inserted before the task is dispatched: the
\* step that creates a row finds its file written in full, and the step
\* that dispatches a task leaves the row in place as "uploaded"; in every
\* state each row refers to a stored file that holds all its bytes; and a
\* request whose loop is over returns whatever the state of the tasks it
\* dispatched.
IngestionOrdered ==
  /\ [](\A u \in DOMAIN uploads :
          /\ uploads[u].file_path \in DOMAIN disk
          /\ disk[uploads[u].file_path] = uploads[u].file_size)
  /\ [][ /\ \A u \in DOMAIN uploads' \ DOMAIN uploads :
               /\ uploads'[u].file_path \in DOMAIN disk
               /\ disk[uploads'[u].file_path] = uploads'[u].file_size
         /\ \A u \in DOMAIN task' \ DOMAIN task :
               /\ u \in DOMAIN uploads'
               /\ uploads'[u].processing_status = "uploaded"
               /\ task'[u].pc = "created"
               /\ task'[u].file_path = uploads'[u].file_path ]_vars
  /\ []((batch.pc = "loop" /\ batch.idx = Len(batch.files))
          => ENABLED BatchUploadReturn)
  /\ []((arch.pc = "loop" /\ arch.idx = Len(arch.files))
          => ENABLED (\E removal_fails \in BOOLEAN : ZipReturn(removal_fails)))

\* C23: the two ingestion endpoints decide alike on the same item: when a
\* batch request and a ZIP request have each dealt with one file of the same
\* name and size for the same student, under the same settings and roster
\* and with no write or insert failing, either both accept it or both
\* reject it.
SameItemSameDecision ==
  ( /\ batch.pc = "returned"
    /\ arch.pc = "returned"
    /\ Len(batch.files) = 1
    /\ Len(arch.archive.entries) = 1
    /\ batch.files[1] = arch.archive.entries[1]
    /\ ~EntrySkipped(batch.files[1].filename)
    /\ batch.student_id_list[1] = EntryStudentId(batch.files[1].filename)
    /\ batch.exam_id = arch.exam_id
    /\ \A i \in 1..Len(batch.faults) : batch.faults[i] = "none"
    /\ \A i \in 1..Len(arch.faults) : arch.faults[i] = "none" )
  => (Len(batch.upload_results) = 1 <=> Len(arch.upload_results) = 1)

\* the upload ids a request reports as successes
ReportedIds(upload_results) ==
  {upload_results[i].upload_id : i \in 1..Len(upload_results)}

\* the report of the request r has one more success after the step
SuccessAdded(r, rNext) ==
  /\ Len(rNext.upload_results) = Len(r.upload_results) + 1
  /\ SubSeq(rNext.upload_results, 1, Len(r.upload_results)) = r.upload_results

\* the step created the row of the success and dispatched its task, and
\* no other
RowAndTaskOf(e) ==
  /\ e.upload_id \notin DOMAIN uploads
  /\ e.upload_id \notin DOMAIN task
  /\ DOMAIN uploads' = DOMAIN uploads \cup {e.upload_id}
  /\ DOMAIN task' = DOMAIN task \cup {e.upload_id}
  /\ uploads'[e.upload_id].processing_status = "uploaded"
  /\ uploads'[e.upload_id].file_name = e.file_name
  /\ task'[e.upload_id].pc = "created"

\* C26: every success a batch or ZIP request reports stands for one row of
\* its own, inserted as "uploaded" in the step that reports it, and one
\* task for that row, dispatched in the same step; a step that reports a
\* failure creates no row and no task, and no row or task comes to be
\* without a success reported for it; the upload ids reported are all
\* different and are exactly the ids of the tasks, so no upload id is
\* dispatched twice.
ReportMatchesStore ==
  /\ [](LET bids == ReportedIds(batch.upload_results)
            zids == ReportedIds(arch.upload_results)
        IN  /\ Cardinality(bids) = Len(batch.upload_results)
            /\ Cardinality(zids) = Len(arch.upload_results)
            /\ bids \cap zids = {}
            /\ DOMAIN uploads \subseteq bids \cup zids
            /\ DOMAIN task = bids \cup zids
            /\ ctr.uploads = Cardinality(bids \cup zids)
            /\ \A i \in 1..Len(batch.upload_results) :
                  LET e == batch.upload_results[i]
                  IN  e.upload_id \in DOMAIN uploads =>
                        /\ uploads[e.upload_id].file_name = e.file_name
                        /\ uploads[e.upload_id].exam_id = batch.exam_id
            /\ \A i \in 1..Len(arch.upload_results) :
                  LET e == arch.upload_results[i]
                  IN  e.upload_id \in DOMAIN uploads =>
                        /\ uploads[e.upload_id].file_name = e.file_name
                        /\ uploads[e.upload_id].exam_id = arch.exam_id)
  /\ [][ /\ (ctr'.batch = ctr.batch /\ batch'.upload_results # batch.upload_results)
             => (/\ SuccessAdded(batch, batch')
                 /\ RowAndTaskOf(Last(batch'.upload_results)))
         /\ (ctr'.zip = ctr.zip /\ arch'.upload_results # arch.upload_results)
             => (/\ SuccessAdded(arch, arch')
                 /\ RowAndTaskOf(Last(arch'.upload_results)))
         /\ (\/ (ctr'.batch = ctr.batch /\ batch'.failed_uploads # batch.failed_uploads)
             \/ (ctr'.zip = ctr.zip /\ arch'.failed_uploads # arch.failed_uploads))
             => (uploads' = uploads /\ task' = task)
         /\ (\/ DOMAIN task' # DOMAIN task
             \/ DOMAIN uploads' \ DOMAIN uploads # {})
             => (\/ (ctr'.batch = ctr.batch /\ batch'.upload_results # batch.upload_results)
                 \/ (ctr'.zip = ctr.zip /\ arch'.upload_results # arch.upload_results))
       ]_vars

\* a batch request has reported a failure and a ZIP request a success, and
\* the task of the one row there is has run to its end
ReportsOfBothEndpoints ==
  /\ batch.pc = "returned"
  /\ Len(batch.upload_results) = 0
  /\ Len(batch.failed_uploads) = 1
  /\ arch.pc = "returned"
  /\ Len(arch.upload_results) = 1
  /\ DOMAIN uploads = {arch.upload_results[1].upload_id}
  /\ DOMAIN task = DOMAIN uploads
  /\ \A u \in DOMAIN task : task[u].pc = "done"

(***************************************************************************)
(* One paper: its worker, the grading requests, the status endpoints and   *)
(* its deletion                                                            *)
(***************************************************************************)
OnePaper == <<[filename |-> <<"exam", ".", "pdf">>, size |-> 1]>>

NextGrade ==
  \/ \E e \in ExamIds, s \in ServiceStudentIds, t \in Teachers, r \in BOOLEAN :
        BatchUploadCall(e, OnePaper, s, t, r)
  \/ \E fault \in OpenFaults : BatchUploadItem(fault)
  \/ \E fault \in WriteFaults : BatchItemWrite(fault)
  \/ \E fault \in InsertFaults : BatchItemInsert(fault)
  \/ BatchUploadReturn
  \/ \E u \in 1..MaxUploads, a, b \in BOOLEAN : WorkerStart(u, a, b)
  \/ \E u \in 1..MaxUploads, a, b \in BOOLEAN : WorkerRead(u, a, b)
  \/ \E u \in 1..MaxUploads, o \in OcrOutcomes, a, b \in BOOLEAN :
        WorkerExtract(u, o, a, b)
  \/ \E u \in 1..MaxUploads, g \in GradeOutcomes : WorkerGrade(u, g)
  \/ \E u \in 1..MaxUploads : ReprocessCall(u)
  \/ \E e \in ExamIds, q \in SeqsUpTo(1..MaxUploads, MaxUploads) :
        RegradeAllCall(e, q)
  \/ \E g \in GradeOutcomes : ApiGrade(g)
  \/ \E e \in ExamIds : GetExamUploadStatus(e)
  \/ \E u \in 1..MaxUploads : GetUploadStatus(u)
  \/ \E e \in ExamIds : GetExamGradingStatus(e)
  \/ \E u \in DOMAIN uploads, fault \in DeleteFaults :
        DeleteUpload(u, uploads[u].uploaded_by_teacher_id, fault)

SpecGrade == InitService /\ [][NextGrade]_vars

\* a step of an invocation of auto_grade_upload: a grading call of the
\* worker's or of a request's invocation returns, or a reprocess or
\* regrade-all request arrives and begins one
GradingStep ==
  \/ \E u \in DOMAIN task :
        task[u].ctx.state = "await" /\ task'[u].ctx # task[u].ctx
  \/ api.ctx.state = "await" /\ api'.ctx # api.ctx
  \/ ctr'.api # ctr.api

\* a step of one of the three status endpoints
StatusReadStep ==
  /\ resp' # resp
  /\ resp'.op \in {"exam_status", "upload_status", "grading_status"}

\* C22: no step of auto_grade_upload, whoever invoked it and whether it
\* grades, skips or fails, changes any exam_uploads row; a grading failure
\* leaves a processed row processed.  The status endpoints change no row of
\* any table.
GradingLeavesUploadRow ==
  [][ /\ GradingStep => uploads' = uploads
      /\ StatusReadStep => /\ uploads' = uploads
                           /\ answers' = answers
                           /\ results' = results
                           /\ disk' = disk ]_vars

\* the grading of a processed upload has failed, the row is still
\* processed, and its status has been read
GradingFailedRowProcessed ==
  /\ \E u \in DOMAIN uploads :
        /\ task[u].ctx.state = "done"
        /\ task[u].ctx.raised
        /\ uploads[u].processing_status = "processed"
        /\ uploads[u].error_message = ""
        /\ resp.op = "upload_status"
        /\ resp.status_code = 200
        /\ resp.body = uploads[u]

(***************************************************************************)
(* Properties of the rows written by the grading (Spec)                    *)
(***************************************************************************)
\* the uploads for which no invocation of auto_grade_upload is under way
NotBeingGraded ==
  {u \in DOMAIN uploads : \A c \in AwaitingInvocations : c.upload # u}

\* C25: once the invocations of auto_grade_upload for an upload have ended,
\* however they ended, every student_answers row of the upload is referred
\* to by exactly one grading_results row, of the same question and student,
\* and every grading_results row refers to a student_answers row.
AnswersAndResultsPaired ==
  /\ \A u \in NotBeingGraded :
        \A a \in AnswersOf(answers, u) :
          /\ Cardinality({r \in results : r.student_answer_id = a.id}) = 1
          /\ \A r \in results :
                r.student_answer_id = a.id =>
                  (r.question_id = a.question_id /\ r.student_id = a.student_id)
  /\ \A r \in results : \E a \in answers : a.id = r.student_answer_id

====
